---------------------------- MODULE Spec2Model ----------------------------
(***************************************************************************)
(* A model of the GraphSAGE layers of tensorflow_gnn                       *)
(* (models/graph_sage/layers.py) and of the NextState layers               *)
(* (graph/keras/layers/next_state.py).                                     *)
(*                                                                         *)
(* Numbers are exact rationals <<n, d>> (d > 0, lowest terms), so that the *)
(* mean reductions and divide_no_nan are computed exactly.  A tensor of    *)
(* shape [N, W] is a sequence of N rows, each a sequence of W rationals.   *)
(***************************************************************************)
EXTENDS Integers, Sequences, FiniteSets, TLC

(***************************************************************************)
(* Bounds of the model.                                                    *)
(***************************************************************************)
MaxUnits == 2
MaxWidth == 2
MaxRows == 2
MaxNodes == 2

(***************************************************************************)
(* Exact rational arithmetic.                                              *)
(***************************************************************************)
Abs(n) == IF n < 0 THEN -n ELSE n

RECURSIVE GCD(_, _)
GCD(a, b) == IF b = 0 THEN a ELSE GCD(b, a % b)

Norm(n, d) ==
  IF n = 0 THEN <<0, 1>>
  ELSE LET g == GCD(Abs(n), d) IN <<n \div g, d \div g>>

Q(n) == <<n, 1>>
QZero == <<0, 1>>
QAdd(x, y) == Norm(x[1] * y[2] + y[1] * x[2], x[2] * y[2])
QMul(x, y) == Norm(x[1] * y[1], x[2] * y[2])
QDivInt(x, k) == Norm(x[1], x[2] * k)

RECURSIVE QSum(_)
QSum(s) == IF s = <<>> THEN QZero ELSE QAdd(s[1], QSum(Tail(s)))

(***************************************************************************)
(* Tensors of rank 2.                                                      *)
(***************************************************************************)
Rows(t) == Len(t)
Width(t) == Len(t[1])
ZerosLike(n, w) == [i \in 1..n |-> [j \in 1..w |-> QZero]]

\* tf.keras.layers.Dense(units, use_bias=False): x [N, D] times kernel [D, U].
Dense(kernel, x) ==
  [i \in 1..Rows(x) |->
     [j \in 1..Len(kernel[1]) |->
        QSum([k \in 1..Len(kernel) |-> QMul(x[i][k], kernel[k][j])])]]

\* The kernel a Dense layer holds: its initial value, or a value after training.
\* `layer` tells the Dense layers of one model apart.
Kernel(layer, trained, d, u) ==
  [k \in 1..d |->
     [j \in 1..u |->
        Q((((k + 2 * j + layer + (IF trained THEN 1 ELSE 0)) % 3) - 1)
          + (IF k = j THEN 2 ELSE 0))]]

\* tf.concat(list, axis=-1)
RECURSIVE ConcatRows(_, _)
ConcatRows(list, i) ==
  IF list = <<>> THEN <<>> ELSE list[1][i] \o ConcatRows(Tail(list), i)

Concat(list) == [i \in 1..Rows(list[1]) |-> ConcatRows(list, i)]

\* tf.add_n(list): all shapes must agree (the caller checks SameShapes first).
RECURSIVE AddN(_)
AddN(list) ==
  IF Len(list) = 1 THEN list[1]
  ELSE LET rest == AddN(Tail(list))
       IN [i \in 1..Rows(list[1]) |->
             [j \in 1..Width(list[1]) |-> QAdd(list[1][i][j], rest[i][j])]]

SameShapes(list) ==
  \A a, b \in 1..Len(list) :
     Rows(list[a]) = Rows(list[b]) /\ Width(list[a]) = Width(list[b])


VARIABLES
  ns,       \* the GraphSAGENextState instance
  nsCall,   \* the record of its latest call
  gcn,      \* the GCNGraphSAGENodeSetUpdate instance
  gcnCall,  \* the record of its call
  conv,     \* the latest construction of a convolution
  upd,      \* a NodeSetUpdate made by GraphSAGEGraphUpdate, and its node set
  updCall,  \* the record of its call
  asm,      \* the latest schema resolution of a GraphSAGEGraphUpdate
  convCall, \* the record of a call of the constructed convolution
  rns,      \* the ResidualNextState instance
  rnsCall,  \* the record of its call
  cfg       \* the latest get_config round trip of a layer

vars == <<ns, nsCall, gcn, gcnCall, conv, upd, updCall, asm,
          convCall, rns, rnsCall, cfg>>

(***************************************************************************)
(* Layers shared by all GraphSAGE classes.                                 *)
(***************************************************************************)
\* Dropout rates as rationals: 0 (the default) and 1/2.
DropoutRates == {<<0, 1>>, <<1, 2>>}

\* The random keep-masks a Dropout layer may draw, by name.
Masks == {"keep_all", "drop_alternate"}

Keep(mask, i, j) ==
  IF mask = "keep_all" THEN 1 ELSE (i + j) % 2

\* tf.keras.layers.Dropout(rate)(x, training=training): the identity unless
\* training with rate > 0; then kept entries are scaled by 1 / (1 - rate).
DropoutActive(rate, training) == training /\ rate[1] > 0

Dropout(x, rate, training, mask) ==
  IF ~DropoutActive(rate, training) THEN x
  ELSE [i \in 1..Rows(x) |->
          [j \in 1..Width(x) |->
             QMul(QMul(x[i][j], Q(Keep(mask, i, j))),
                  <<rate[2], rate[2] - rate[1]>>)]]

\* tf.keras.activations.get(activation)
Activations == {"linear", "relu"}

Activation(name, x) ==
  IF name = "relu"
  THEN [i \in 1..Rows(x) |->
          [j \in 1..Width(x) |-> IF x[i][j][1] < 0 THEN QZero ELSE x[i][j]]]
  ELSE x

\* result += bias_term, with TensorFlow's broadcasting of the last axis:
\* equal widths, or one of the two widths is 1; anything else is an error.
BiasAddOk(x, bias) ==
  Width(x) = Len(bias) \/ Width(x) = 1 \/ Len(bias) = 1

BiasAdd(x, bias) ==
  LET w == IF Width(x) = 1 THEN Len(bias) ELSE Width(x)
  IN [i \in 1..Rows(x) |->
        [j \in 1..w |->
           QAdd(x[i][IF Width(x) = 1 THEN 1 ELSE j],
                bias[IF Len(bias) = 1 THEN 1 ELSE j])]]

\* tf.math.l2_normalize(x, axis=1): x / sqrt(max(sum(x^2), epsilon)).  The
\* quotient is irrational in general; an entry y of the result is held as
\* the rational sign(y) * y^2, which determines y.  A zero row stays zero.
Sign(x) == IF x[1] < 0 THEN -1 ELSE IF x[1] > 0 THEN 1 ELSE 0

\* A variant in which the rows are left as they are.
Unnormalized(x) == x

L2Normalize(x) ==
  [i \in 1..Rows(x) |->
     LET sq == [j \in 1..Width(x) |-> QMul(x[i][j], x[i][j])]
         total == QSum(sq)
     IN [j \in 1..Width(x) |->
           IF total[1] = 0 THEN QZero
           ELSE QMul(Q(Sign(x[i][j])),
                     QMul(sq[j], <<total[2], total[1]>>))]]

\* tfgnn.combine_values(inputs, combine_type)
CombineError(list, combine_type) ==
  IF combine_type = "sum"
  THEN IF SameShapes(list) THEN "" ELSE "InvalidArgumentError"
  ELSE IF combine_type = "concat"
  THEN IF \A a \in 1..Len(list) : Rows(list[a]) = Rows(list[1])
       THEN "" ELSE "InvalidArgumentError"
  ELSE "ValueError"

combine_values(list, combine_type) ==
  IF combine_type = "sum" THEN AddN(list) ELSE Concat(list)

(***************************************************************************)
(* GraphSAGENextState                                                      *)
(***************************************************************************)
\* Edge set names, and their rank in Python's string order (sorted()).
EdgeSetNames == {"cites", "writes"}
NameRank == [n \in EdgeSetNames |-> IF n = "cites" THEN 1 ELSE 2]

FeatureNames == {"hidden_state", "embedding"}
CombineTypes == {"sum", "concat", "max"}

\* The input tensors of the calls: fixed values for each name and shape.
NodeTensor(n, w) ==
  [i \in 1..n |-> [j \in 1..w |-> Q(((2 * i + j) % 4) - 2)]]

EdgeTensor(name, n, w) ==
  [i \in 1..n |-> [j \in 1..w |-> Q(((3 * NameRank[name] + i + 2 * j) % 5) - 2)]]

\* Constructor arguments; dropout_rate and feature_name at their defaults.
NextStateConfigs ==
  [units : 1..MaxUnits, use_bias : BOOLEAN, dropout_rate : {<<0, 1>>},
   feature_name : {"hidden_state"}, l2_normalize : BOOLEAN,
   combine_type : CombineTypes, activation : Activations]

\* __init__: stores the options; no bias yet (bias_term is <<>> while absent).
NextState_init(config) ==
  [units |-> config.units, use_bias |-> config.use_bias,
   dropout_rate |-> config.dropout_rate, feature_name |-> config.feature_name,
   l2_normalize |-> config.l2_normalize, combine_type |-> config.combine_type,
   activation |-> config.activation,
   built |-> FALSE, bias_term |-> <<>>, trained |-> FALSE]

RECURSIVE SumWidths(_)
SumWidths(shapes) ==
  IF shapes = <<>> THEN 0 ELSE shapes[1][2] + SumWidths(Tail(shapes))

\* A variant in which only the rank is looked at.
WrongRank(s) == Len(s) # 2

\* A static shape is a sequence of sizes, 0 standing for an unknown size.
\* s.rank != 2 or s[1] is None
InvalidEdgeShape(s) == Len(s) # 2 \/ s[2] = 0

\* A build that lets every combine_type through.
BuildErrorForShapesOnly(self, edge_input_shapes) ==
  IF self.use_bias /\ self.combine_type = "concat"
     /\ \E a \in 1..Len(edge_input_shapes) :
           InvalidEdgeShape(edge_input_shapes[a])
  THEN "ValueError" ELSE ""

\* build(input_shapes): "" or the error raised.
NextState_build_error(self, edge_input_shapes) ==
  IF ~self.use_bias THEN ""
  ELSE IF self.combine_type = "sum" THEN ""
  ELSE IF self.combine_type = "concat"
  THEN IF \E a \in 1..Len(edge_input_shapes) :
             InvalidEdgeShape(edge_input_shapes[a])
       THEN "ValueError" ELSE ""
  ELSE "ValueError"

\* build(input_shapes): the width of the bias created.
NextState_bias_shape(self, edge_input_shapes) ==
  IF self.combine_type = "sum" THEN self.units
  ELSE self.units + SumWidths(edge_input_shapes)

\* build(input_shapes): the instance after a build that raised nothing.
NextState_build(self, edge_input_shapes) ==
  IF self.use_bias
  THEN [self EXCEPT !.built = TRUE,
          !.bias_term = <<[j \in 1..NextState_bias_shape(self, edge_input_shapes)
                             |-> QZero]>>]
  ELSE [self EXCEPT !.built = TRUE]

\* sorted(edge_inputs_dict.items()): by key, ascending.
RECURSIVE InsertItem(_, _)
InsertItem(item, items) ==
  IF items = <<>> THEN <<item>>
  ELSE IF NameRank[item[1]] <= NameRank[items[1][1]] THEN <<item>> \o items
  ELSE <<items[1]>> \o InsertItem(item, Tail(items))

\* A variant in which the items are taken in the mapping's own iteration order.
UnsortedItems(items) == items

RECURSIVE SortedItems(_)
SortedItems(items) ==
  IF items = <<>> THEN <<>>
  ELSE InsertItem(items[1], SortedItems(Tail(items)))

\* A combination list with the self-transformed state last.
SelfLastList(result, edge_inputs_dict) ==
  [a \in 1..Len(edge_inputs_dict) |-> edge_inputs_dict[a][2]] \o <<result>>

\* [result, *[v for _, v in sorted(edge_inputs_dict.items())]]
CombineList(result, edge_inputs_dict) ==
  LET items == SortedItems(edge_inputs_dict)
  IN <<result>> \o [a \in 1..Len(items) |-> items[a][2]]

\* The outcome of a call that raised `error` at step `at`.
Raised(self, error, at, steps, self_t, combined) ==
  [status |-> "error", error |-> error, at |-> at, steps |-> steps,
   self_t |-> self_t, combined |-> combined, out |-> <<>>, self |-> self]

\* A variant in which the context position is never looked at.
ContextIgnored(unused_context_state) == FALSE

\* if unused_context_state: ...
ContextSupplied(unused_context_state) == unused_context_state # <<>>

\* tf.concat and tf.add_n reject a list of tensors of different ranks.
RankMismatch(edge_inputs_dict) ==
  \E a \in 1..Len(edge_inputs_dict) :
     Len(edge_inputs_dict[a]) = 3 /\ Len(edge_inputs_dict[a][3]) # 2

\* call(inputs, training) on a built instance.  inputs is
\* <<old_node_state, edge_inputs_dict, unused_context_state>>; the dict is
\* the sequence of its (key, value) items in insertion order.
NextState_call(self, inputs, training, mask) ==
  IF ContextSupplied(inputs[3])
  THEN Raised(self, "ValueError", "context", <<>>, <<>>, <<>>)
  ELSE
  LET dropped == Dropout(inputs[1], self.dropout_rate, training, mask)
      self1 == self
      self_t == Dense(Kernel(0, self.trained, Width(dropped), self.units), dropped)
      list == CombineList(self_t, inputs[2])
      s2 == <<"dropout", "self_transform">>
  IN IF self.combine_type \in {"sum", "concat"} /\ RankMismatch(inputs[2])
  THEN Raised(self1, "InvalidArgumentError", "combine", s2, <<self_t>>, list)
  ELSE IF CombineError(list, self.combine_type) # ""
  THEN Raised(self1, CombineError(list, self.combine_type), "combine", s2,
              <<self_t>>, list)
  ELSE
  LET combined == combine_values(list, self.combine_type)
      s3 == Append(s2, "combine")
  IN IF self.use_bias /\ ~BiasAddOk(combined, self1.bias_term[1])
  THEN Raised(self1, "InvalidArgumentError", "bias", s3, <<self_t>>, list)
  ELSE
  LET biased == IF self.use_bias
                THEN BiasAdd(combined, self1.bias_term[1]) ELSE combined
      s4 == IF self.use_bias THEN Append(s3, "bias") ELSE s3
      activated == Activation(self.activation, biased)
      s5 == Append(s4, "activation")
      result == IF self.l2_normalize THEN L2Normalize(activated) ELSE activated
      s6 == IF self.l2_normalize THEN Append(s5, "l2_normalize") ELSE s5
  IN [status |-> "ok", error |-> "", at |-> "", steps |-> s6,
      self_t |-> <<self_t>>, combined |-> list,
      out |-> <<[name |-> self.feature_name, value |-> result]>>,
      self |-> self1]

\* Keras' Layer.__call__: build(input_shapes) on the first call, then call.
ShapeOf(t) == <<Rows(t), Width(t)>>

\* The static shapes of the edge inputs.  An item of the mapping is
\* <<key, value>>, or <<key, value, shape>> when the static shape of the
\* value is not that of a fully defined tensor of rank 2.
EdgeShapes(edge_inputs_dict) ==
  [a \in 1..Len(edge_inputs_dict) |->
     IF Len(edge_inputs_dict[a]) = 3 THEN edge_inputs_dict[a][3]
     ELSE ShapeOf(edge_inputs_dict[a][2])]

NextState_apply(self, inputs, training, mask) ==
  IF self.built THEN NextState_call(self, inputs, training, mask)
  ELSE IF NextState_build_error(self, EdgeShapes(inputs[2])) # ""
  THEN Raised(self, NextState_build_error(self, EdgeShapes(inputs[2])),
              "build", <<>>, <<>>, <<>>)
  ELSE NextState_call(NextState_build(self, EdgeShapes(inputs[2])),
                      inputs, training, mask)

\* The host framework's optimizer: it changes the values of the trainable
\* weights of a built layer, never their shapes.
NextState_train(self) ==
  [self EXCEPT !.trained = TRUE,
     !.bias_term = IF self.bias_term = <<>> THEN <<>>
                   ELSE <<[j \in 1..Len(self.bias_term[1]) |-> Q(j)]>>]

\* The edge-set-keyed mappings a call may get: every insertion order of every
\* subset of the edge set names, each value of any width up to MaxWidth.
EdgeInputDicts(n) ==
  {<<>>}
  \cup {<<<<e, EdgeTensor(e, n, w)>>>> : e \in EdgeSetNames, w \in 1..MaxWidth}
  \cup {<<<<p[1], EdgeTensor(p[1], n, p[3])>>,
            <<p[2], EdgeTensor(p[2], n, p[4])>>>> :
          p \in {q \in EdgeSetNames \X EdgeSetNames
                         \X (1..MaxWidth) \X (1..MaxWidth) : q[1] # q[2]}}

\* Edge inputs whose static shape build() rejects in concat mode: a feature
\* axis of unknown size, alone and next to a well-shaped input, and a tensor
\* of rank 3.
IllShapedEdgeInputs(n) ==
  {<<<<"cites", EdgeTensor("cites", n, 1), <<n, 0>>>>>>,
   <<<<"writes", EdgeTensor("writes", n, 1)>>,
     <<"cites", EdgeTensor("cites", n, 1), <<n, 0>>>>>>,
   <<<<"cites", EdgeTensor("cites", n, 1), <<n, 1, 1>>>>>>}

\* What the third input position may hold: nothing, or a context feature.
ContextInputs == {<<>>, <<"context_state">>}

(***************************************************************************)
(* Python mappings: a sequence of <<key, value>> items with distinct keys, *)
(* in insertion order.  An optional value is <<>> for None and <<v>>       *)
(* otherwise.                                                              *)
(***************************************************************************)
DictHas(dict, key) == \E a \in 1..Len(dict) : dict[a][1] = key

\* dict[key]
DictGet(dict, key) == dict[CHOOSE a \in 1..Len(dict) : dict[a][1] = key][2]

\* dict.get(key): None for a missing key.
DictGetOrNone(dict, key) ==
  IF DictHas(dict, key) THEN DictGet(dict, key) ELSE <<>>

\* dict[key] = value
DictSet(dict, key, value) ==
  IF DictHas(dict, key)
  THEN [a \in 1..Len(dict) |->
          IF dict[a][1] = key THEN <<key, value>> ELSE dict[a]]
  ELSE Append(dict, <<key, value>>)

\* dict.setdefault(key, value)
SetDefault(dict, key, value) ==
  IF DictHas(dict, key) THEN dict ELSE Append(dict, <<key, value>>)

\* f(key=..., **kwargs) with the key also in kwargs: Python raises TypeError
\* (multiple values for a keyword argument) before f runs.
KeywordClash(keywords, kwargs) ==
  \E a \in 1..Len(kwargs) : kwargs[a][1] \in keywords

(***************************************************************************)
(* Graphs: the node sets "paper" and "author", the edge sets "cites"       *)
(* (paper -> paper) and "writes" (author -> paper).                        *)
(***************************************************************************)
NodeSetNames == {"paper", "author"}
Tags == {"SOURCE", "TARGET"}

\* tfgnn.reverse_tag
reverse_tag(tag) == IF tag = "SOURCE" THEN "TARGET" ELSE "SOURCE"

\* The edge lists of an edge set from `s` source nodes to `t` target nodes:
\* no edge, every source to target 1, and source i to target (i mod t) + 1.
EdgeLists(s, t) ==
  { <<>>,
    [e \in 1..s |-> [SOURCE |-> e, TARGET |-> 1]],
    [e \in 1..s |-> [SOURCE |-> e, TARGET |-> (e % t) + 1]] }

\* The schema of the graphs: "cites" from paper to paper, "writes" from
\* author to paper.
GraphSchema ==
  << <<"cites", [SOURCE |-> "paper", TARGET |-> "paper"]>>,
     <<"writes", [SOURCE |-> "author", TARGET |-> "paper"]>> >>

\* A scalar GraphTensor: the size of each node set, its hidden state, and
\* each edge set's adjacency.
Graph(papers, authors, cites, writes) ==
  [node_sets |->
     [n \in NodeSetNames |->
        [total_size |-> IF n = "paper" THEN papers ELSE authors,
         hidden_state |->
           IF n = "paper" THEN NodeTensor(papers, MaxWidth)
           ELSE EdgeTensor("writes", authors, MaxWidth)]],
   edge_sets |->
     [e \in EdgeSetNames |->
        [SOURCE |-> DictGet(GraphSchema, e).SOURCE,
         TARGET |-> DictGet(GraphSchema, e).TARGET,
         edges |-> IF e = "cites" THEN cites ELSE writes]]]

Graphs ==
  UNION { { Graph(p, a, c, w) : c \in EdgeLists(p, p), w \in EdgeLists(a, p) } :
          p \in 1..MaxNodes, a \in 1..MaxNodes }

\* edge_set.adjacency.node_set_name(tag)
node_set_name_at(graph, edge_set_name, tag) == graph.edge_sets[edge_set_name][tag]

\* tfgnn.broadcast_node_to_edges(graph, edge_set_name, tag, feature_value)
broadcast_node_to_edges(graph, edge_set_name, tag, feature_value) ==
  LET edges == graph.edge_sets[edge_set_name].edges
  IN [e \in 1..Len(edges) |-> feature_value[edges[e][tag]]]

\* tfgnn.pool_edges_to_node(graph, edge_set_name, tag, "sum", feature_value)
\* for a feature of width w: one row per node of the node set at `tag`, the
\* sum of the rows of the edges incident to it (zeros if there are none).
pool_edges_to_node_sum(graph, edge_set_name, tag, w, feature_value) ==
  LET edges == graph.edge_sets[edge_set_name].edges
      n == graph.node_sets[graph.edge_sets[edge_set_name][tag]].total_size
      RECURSIVE Acc(_, _, _)
      Acc(i, j, e) ==
        IF e = 0 THEN QZero
        ELSE QAdd(IF edges[e][tag] = i THEN feature_value[e][j] ELSE QZero,
                  Acc(i, j, e - 1))
  IN [i \in 1..n |-> [j \in 1..w |-> Acc(i, j, Len(edges))]]

(***************************************************************************)
(* GCNGraphSAGENodeSetUpdate                                               *)
(***************************************************************************)
ReduceTypes == {"sum", "mean", "max"}

\* edge_set_names, as the list the loop of call() goes through.
EdgeSetNameLists == {<<>>, <<"cites">>, <<"writes">>, <<"cites", "writes">>}

GCNConfigs ==
  [edge_set_names : EdgeSetNameLists, receiver_tag : Tags,
   reduce_type : ReduceTypes, self_node_feature : {"hidden_state"},
   sender_node_feature : {"hidden_state"}, units : {MaxUnits},
   dropout_rate : DropoutRates, activation : Activations,
   use_bias : BOOLEAN, share_weights : BOOLEAN, add_self_loop : BOOLEAN]

\* __init__: the per-edge-set transforms exist unless weights are shared,
\* the node transform if there is a self loop or weights are shared, and
\* the bias (zeros, of shape [units]) if use_bias.
GCN_init(config) ==
  [edge_set_names |-> config.edge_set_names,
   receiver_tag |-> config.receiver_tag,
   reduce_type |-> config.reduce_type,
   self_node_feature |-> config.self_node_feature,
   sender_node_feature |-> config.sender_node_feature,
   units |-> config.units, dropout_rate |-> config.dropout_rate,
   activation |-> config.activation, use_bias |-> config.use_bias,
   share_weights |-> config.share_weights,
   add_self_loop |-> config.add_self_loop,
   transform_edge_fn_dict |->
     IF ~config.share_weights
     THEN <<{config.edge_set_names[a] : a \in 1..Len(config.edge_set_names)}>>
     ELSE <<>>,
   node_transform_fn |-> config.add_self_loop \/ config.share_weights,
   bias_term |-> IF config.use_bias
                 THEN <<[j \in 1..config.units |-> QZero]>> ELSE <<>>,
   trained |-> FALSE]

\* The optimizer changes the values of the trainable weights.
GCN_train(self) ==
  [self EXCEPT !.trained = TRUE,
     !.bias_term = IF self.bias_term = <<>> THEN <<>>
                   ELSE <<[j \in 1..Len(self.bias_term[1]) |-> Q(j - 3)]>>]

\* A tensor of any rank holding counts: its shape and its entries in order.
\* tf.squeeze drops every axis of size 1.
Squeeze(shape) == SelectSeq(shape, LAMBDA d : d # 1)

\* The in-degree counter of one edge set:
\* tf.squeeze(pool_edges_to_node(graph, name, tag, "sum", tf.ones([E, 1])))
edge_set_in_degrees(graph, edge_set_name, tag) ==
  LET edges == graph.edge_sets[edge_set_name].edges
      ones == [e \in 1..Len(edges) |-> <<Q(1)>>]
      pooled == pool_edges_to_node_sum(graph, edge_set_name, tag, 1, ones)
  IN [shape |-> Squeeze(<<Rows(pooled), 1>>),
      vals |-> [i \in 1..Rows(pooled) |-> pooled[i][1]]]

\* tf.ones(total_size)
OnesVector(total_size) ==
  [shape |-> <<total_size>>, vals |-> [i \in 1..total_size |-> Q(1)]]

\* tf.math.add_n on the counters: the shapes must all be the same.
RECURSIVE AddCounters(_)
AddCounters(list) ==
  IF Len(list) = 1 THEN list[1]
  ELSE LET rest == AddCounters(Tail(list))
       IN [shape |-> list[1].shape,
           vals |-> [i \in 1..Len(rest.vals) |->
                       QAdd(list[1].vals[i], rest.vals[i])]]

SameCounterShapes(list) ==
  \A a, b \in 1..Len(list) : list[a].shape = list[b].shape

\* tf.math.divide_no_nan(summed_node_values, total_in_degrees[:, tf.newaxis])
divide_no_nan(x, counts) ==
  [i \in 1..Rows(x) |->
     [j \in 1..Width(x) |->
        IF counts[i][1] = 0 THEN QZero
        ELSE QMul(x[i][j], <<counts[i][2], counts[i][1]>>)]]

\* The Dense layer applied to the senders of an edge set.
SenderKernel(self, edge_set_name, d) ==
  IF ~self.share_weights
  THEN Kernel(NameRank[edge_set_name], self.trained, d, self.units)
  ELSE Kernel(0, self.trained, d, self.units)

\* One pass of the loop body for edge_set_name: the pooled sender values.
pooled_sender_values(self, graph, edge_set_name, mode, mask) ==
  LET sender_tag == reverse_tag(self.receiver_tag)
      sender_node_set_name == node_set_name_at(graph, edge_set_name, sender_tag)
      sender_node_values ==
        graph.node_sets[sender_node_set_name][self.sender_node_feature]
      dropped == Dropout(sender_node_values, self.dropout_rate, mode, mask)
      transformed ==
        Dense(SenderKernel(self, edge_set_name, Width(dropped)), dropped)
      broadcasted ==
        broadcast_node_to_edges(graph, edge_set_name, sender_tag, transformed)
  IN pool_edges_to_node_sum(graph, edge_set_name, self.receiver_tag,
                            self.units, broadcasted)

\* The self loop's contribution.
self_node_values(self, graph, node_set_name, mode, mask) ==
  LET values == graph.node_sets[node_set_name][self.self_node_feature]
      dropped == Dropout(values, self.dropout_rate, mode, mask)
  IN Dense(Kernel(0, self.trained, Width(dropped), self.units), dropped)

\* The outcome of a call that raised `error` at step `at`.
GCNRaised(error, at, pooled, degrees) ==
  [status |-> "error", error |-> error, at |-> at,
   pooled_node_states_list |-> pooled, edge_set_in_degrees_list |-> degrees,
   pre_bias |-> <<>>, out |-> <<>>]

\* A validation that looks at the first configured edge set only.
WrongFirstReceiver(self, graph, node_set_name) ==
  /\ self.edge_set_names # <<>>
  /\ node_set_name # node_set_name_at(graph, self.edge_set_names[1],
                                      self.receiver_tag)

\* if node_set_name != edge_set.adjacency.node_set_name(self._receiver_tag)
WrongReceiver(self, graph, node_set_name) ==
  \E a \in 1..Len(self.edge_set_names) :
     node_set_name # node_set_name_at(graph, self.edge_set_names[a],
                                      self.receiver_tag)

\* A Dropout layer called without a training argument, as at lines 408 and
\* 440, takes its mode from Keras: the mode of the enclosing Layer.__call__,
\* else the global learning phase.  Layer.__call__ of this layer makes the
\* flag it is given the mode; call() entered in any other way finds the mode
\* of its caller or the learning phase.
KerasModes(training) == {training} \cup BOOLEAN

\* call(graph, node_set_name=..., training=...).  The body does not read
\* `training`; `mode` is the mode its Dropout layer resolves and `mask` the
\* keep-mask it draws.
GCN_call(self, graph, node_set_name, training, mode, mask) ==
  IF self.reduce_type \notin {"sum", "mean"}
  THEN GCNRaised("ValueError", "reduce_type", <<>>, <<>>)
  ELSE IF WrongReceiver(self, graph, node_set_name)
  THEN GCNRaised("ValueError", "receiver", <<>>, <<>>)
  ELSE
  LET names == self.edge_set_names
      mean == self.reduce_type = "mean"
      pooled_edges ==
        [a \in 1..Len(names) |->
           pooled_sender_values(self, graph, names[a], mode, mask)]
      degrees_edges ==
        IF mean
        THEN [a \in 1..Len(names) |->
                edge_set_in_degrees(graph, names[a], self.receiver_tag)]
        ELSE <<>>
      total_size == graph.node_sets[node_set_name].total_size
      pooled_node_states_list ==
        IF self.add_self_loop
        THEN Append(pooled_edges,
                    self_node_values(self, graph, node_set_name, mode, mask))
        ELSE pooled_edges
      edge_set_in_degrees_list ==
        IF self.add_self_loop /\ mean
        THEN Append(degrees_edges, OnesVector(total_size))
        ELSE degrees_edges
  IN IF pooled_node_states_list = <<>>
  THEN GCNRaised("ValueError", "add_n", <<>>, edge_set_in_degrees_list)
  ELSE IF mean /\ ~SameCounterShapes(edge_set_in_degrees_list)
  THEN GCNRaised("InvalidArgumentError", "add_n",
                 pooled_node_states_list, edge_set_in_degrees_list)
  ELSE IF mean /\ AddCounters(edge_set_in_degrees_list).shape = <<>>
  THEN GCNRaised("ValueError", "slice",
                 pooled_node_states_list, edge_set_in_degrees_list)
  ELSE
  LET summed_node_values == AddN(pooled_node_states_list)
      total_in_degrees == AddCounters(edge_set_in_degrees_list)
      result ==
        IF mean
        THEN divide_no_nan(summed_node_values, total_in_degrees.vals)
        ELSE summed_node_values
      biased == IF self.use_bias THEN BiasAdd(result, self.bias_term[1])
                ELSE result
  IN [status |-> "ok", error |-> "", at |-> "",
      pooled_node_states_list |-> pooled_node_states_list,
      edge_set_in_degrees_list |-> edge_set_in_degrees_list,
      pre_bias |-> <<result>>,
      out |-> <<[name |-> self.self_node_feature,
                 value |-> Activation(self.activation, biased)]>>]

(***************************************************************************)
(* GraphSAGEAggregatorConv and GraphSAGEPoolingConv                        *)
(***************************************************************************)
OptionalFeatures == {<<>>, <<"hidden_state">>}

\* **kwargs of the two constructors: receiver_feature and sender_edge_feature
\* are each left out, given as None, or given a feature name.
KwargsChoices(key) == {<<>>} \cup {<<<<key, v>>>> : v \in OptionalFeatures}

ConvKwargs ==
  {a \o b : a \in KwargsChoices("receiver_feature"),
            b \in KwargsChoices("sender_edge_feature")}

ConvReduceTypes == {"sum", "mean"}

\* AnyToAnyConvolutionBase.__init__: keeps the tag and the feature names.
ConvolutionBase_init(receiver_tag, receiver_feature, sender_node_feature, sender_edge_feature, kwargs) ==
  [receiver_tag |-> receiver_tag, receiver_feature |-> receiver_feature,
   sender_node_feature |-> sender_node_feature,
   sender_edge_feature |-> sender_edge_feature,
   name |-> DictGet(kwargs, "name")[1]]

ConvRaised(error, at) ==
  [status |-> "error", error |-> error, at |-> at, self |-> <<>>]

ConvBaseKeywords ==
  {"receiver_tag", "receiver_feature", "sender_node_feature",
   "sender_edge_feature"}

\* GraphSAGEAggregatorConv.__init__(receiver_tag=, reduce_type=,
\* sender_node_feature=, units=, dropout_rate=, **kwargs)
AggregatorConv_init(args) ==
  LET kwargs == SetDefault(args.kwargs, "name", <<"graph_sage_aggregator_conv">>)
  IN IF DictGetOrNone(kwargs, "receiver_feature") # <<>>
  THEN ConvRaised("ValueError", "receiver_feature")
  ELSE IF DictGetOrNone(kwargs, "sender_edge_feature") # <<>>
  THEN ConvRaised("ValueError", "sender_edge_feature")
  ELSE IF args.sender_node_feature = <<>>
  THEN ConvRaised("ValueError", "sender_node_feature")
  ELSE IF KeywordClash(ConvBaseKeywords, kwargs)
  THEN ConvRaised("TypeError", "super().__init__")
  ELSE
  [status |-> "ok", error |-> "", at |-> "",
   self |-> <<ConvolutionBase_init(args.receiver_tag, <<>>,
                                   args.sender_node_feature, <<>>, kwargs)
              @@ [class |-> "GraphSAGEAggregatorConv", units |-> args.units,
                  dropout_rate |-> args.dropout_rate,
                  reduce_type |-> args.reduce_type, trained |-> FALSE]>>]

\* GraphSAGEPoolingConv.__init__(receiver_tag=, sender_node_feature=, units=,
\* hidden_units=, reduce_type=, use_bias=, dropout_rate=, activation=,
\* **kwargs)
PoolingConv_init(args) ==
  LET kwargs == SetDefault(args.kwargs, "name", <<"graph_sage_pooling_conv">>)
  IN IF DictGetOrNone(kwargs, "receiver_feature") # <<>>
  THEN ConvRaised("ValueError", "receiver_feature")
  ELSE IF DictGetOrNone(kwargs, "sender_edge_feature") # <<>>
  THEN ConvRaised("ValueError", "sender_edge_feature")
  ELSE IF args.sender_node_feature = <<>>
  THEN ConvRaised("ValueError", "sender_node_feature")
  ELSE IF KeywordClash(ConvBaseKeywords, kwargs)
  THEN ConvRaised("TypeError", "super().__init__")
  ELSE
  [status |-> "ok", error |-> "", at |-> "",
   self |-> <<ConvolutionBase_init(args.receiver_tag, <<>>,
                                   args.sender_node_feature, <<>>, kwargs)
              @@ [class |-> "GraphSAGEPoolingConv", units |-> args.units,
                  hidden_units |-> args.hidden_units,
                  use_bias |-> args.use_bias,
                  activation |-> args.activation,
                  dropout_rate |-> args.dropout_rate,
                  reduce_type |-> args.reduce_type, trained |-> FALSE]>>]

AggregatorConvArgs ==
  [receiver_tag : Tags, reduce_type : ConvReduceTypes,
   sender_node_feature : OptionalFeatures, units : 1..MaxUnits,
   dropout_rate : {<<0, 1>>}, kwargs : ConvKwargs]

PoolingConvArgs ==
  [receiver_tag : Tags, reduce_type : ConvReduceTypes,
   sender_node_feature : OptionalFeatures, units : 1..MaxUnits,
   hidden_units : {MaxUnits}, use_bias : BOOLEAN, activation : {"relu"},
   dropout_rate : {<<0, 1>>}, kwargs : ConvKwargs]

\* The larger of two rationals (denominators are positive).
QMax(a, b) == IF a[1] * b[2] < b[1] * a[2] THEN b ELSE a

\* tfgnn.pool_edges_to_node(graph, edge_set_name, tag, reduce_type,
\* feature_value): "mean" divides each node's sum by its number of edges and
\* gives 0 to a node without edges; "max_no_inf" takes the largest value over
\* a node's edges and gives 0 to a node without edges.
pool_edges_to_node(graph, edge_set_name, tag, reduce_type, w, feature_value) ==
  LET edges == graph.edge_sets[edge_set_name].edges
      summed == pool_edges_to_node_sum(graph, edge_set_name, tag, w,
                                       feature_value)
      Count(i) == Cardinality({e \in 1..Len(edges) : edges[e][tag] = i})
      RECURSIVE Max(_, _, _)
      Max(i, j, e) ==
        IF e = 0 THEN <<>>
        ELSE IF edges[e][tag] # i THEN Max(i, j, e - 1)
        ELSE IF Max(i, j, e - 1) = <<>> THEN <<feature_value[e][j]>>
        ELSE <<QMax(feature_value[e][j], Max(i, j, e - 1)[1])>>
  IN IF reduce_type = "sum" THEN summed
     ELSE IF reduce_type = "mean"
     THEN [i \in 1..Rows(summed) |->
             [j \in 1..w |->
                IF Count(i) = 0 THEN QZero
                ELSE QDivInt(summed[i][j], Count(i))]]
     ELSE [i \in 1..Rows(summed) |->
             [j \in 1..w |->
                IF Count(i) = 0 THEN QZero ELSE Max(i, j, Len(edges))[1]]]

\* The Dense layers of a convolution, told apart from the next-state layer's.
TransformNeighborLayer == 3

\* A convolution that always pools by sum, whatever its reduce_type.
SumPooledConvolve(self, graph, edge_set_name, sender_node_input, training, mask) ==
  LET w == Width(sender_node_input)
      broadcasted ==
        broadcast_node_to_edges(graph, edge_set_name,
                                reverse_tag(self.receiver_tag),
                                sender_node_input)
      dropped == Dropout(broadcasted, self.dropout_rate, training, mask)
      pooled == pool_edges_to_node_sum(graph, edge_set_name,
                                       self.receiver_tag, w, dropped)
  IN Dense(Kernel(TransformNeighborLayer, self.trained, w, self.units), pooled)

\* GraphSAGEAggregatorConv.convolve: broadcast_from_sender_node and
\* pool_to_receiver are the base class's closures over the graph and the edge
\* set.
AggregatorConv_convolve(self, graph, edge_set_name, sender_node_input, training, mask) ==
  LET w == Width(sender_node_input)
      broadcasted ==
        broadcast_node_to_edges(graph, edge_set_name,
                                reverse_tag(self.receiver_tag),
                                sender_node_input)
      dropped == Dropout(broadcasted, self.dropout_rate, training, mask)
      pooled == pool_edges_to_node(graph, edge_set_name, self.receiver_tag,
                                   self.reduce_type, w, dropped)
  IN Dense(Kernel(TransformNeighborLayer, self.trained, w, self.units), pooled)

\* The hidden Dense layer of a pooling convolution.
PoolingTransformLayer == 5

\* self._pooling_transform_fn: Dense(hidden_units, use_bias=...,
\* activation=...) on rows of width w; its bias starts at zeros.
pooling_transform_fn(self, w, x) ==
  LET y == Dense(Kernel(PoolingTransformLayer, self.trained, w,
                        self.hidden_units), x)
      bias == [j \in 1..self.hidden_units |->
                 IF self.trained THEN Q(j) ELSE QZero]
  IN Activation(self.activation,
                IF self.use_bias /\ y # <<>> THEN BiasAdd(y, bias) ELSE y)

\* A variant in which the edges are pooled before the hidden transform.
PoolBeforeHidden(self, graph, edge_set_name, sender_node_input, training, mask) ==
  LET w == Width(sender_node_input)
      broadcasted ==
        broadcast_node_to_edges(graph, edge_set_name,
                                reverse_tag(self.receiver_tag),
                                sender_node_input)
      dropped == Dropout(broadcasted, self.dropout_rate, training, mask)
      pooled == pool_edges_to_node(graph, edge_set_name, self.receiver_tag,
                                   self.reduce_type, w, dropped)
  IN Dense(Kernel(TransformNeighborLayer, self.trained, self.hidden_units,
                  self.units),
           pooling_transform_fn(self, w, pooled))

\* GraphSAGEPoolingConv.convolve
PoolingConv_convolve(self, graph, edge_set_name, sender_node_input, training, mask) ==
  LET w == Width(sender_node_input)
      broadcasted ==
        broadcast_node_to_edges(graph, edge_set_name,
                                reverse_tag(self.receiver_tag),
                                sender_node_input)
      dropped == Dropout(broadcasted, self.dropout_rate, training, mask)
      hidden == pooling_transform_fn(self, w, dropped)
      pooled == pool_edges_to_node(graph, edge_set_name, self.receiver_tag,
                                   self.reduce_type, self.hidden_units, hidden)
  IN Dense(Kernel(TransformNeighborLayer, self.trained, self.hidden_units,
                  self.units),
           pooled)

\* AnyToAnyConvolutionBase.call on an edge set: reads the sender node
\* feature and runs convolve.
Conv_call(self, graph, edge_set_name, training, mask) ==
  LET sender == node_set_name_at(graph, edge_set_name,
                                 reverse_tag(self.receiver_tag))
      sender_node_input == graph.node_sets[sender][self.sender_node_feature[1]]
  IN IF self.class = "GraphSAGEPoolingConv"
     THEN PoolingConv_convolve(self, graph, edge_set_name, sender_node_input,
                               training, mask)
     ELSE AggregatorConv_convolve(self, graph, edge_set_name,
                                  sender_node_input, training, mask)

\* The pooling convolutions that are called: every option but the names.
PoolingCallArgs ==
  [receiver_tag : Tags, reduce_type : {"max_no_inf", "mean"},
   sender_node_feature : {<<"hidden_state">>}, units : {1, MaxUnits},
   hidden_units : {MaxUnits}, use_bias : BOOLEAN,
   activation : Activations, dropout_rate : DropoutRates, kwargs : {<<>>}]

(***************************************************************************)
(* tfgnn.keras.layers.NodeSetUpdate over GraphSAGE convolutions            *)
(***************************************************************************)
NodeSetUpdate_init(edge_set_inputs, next_state, node_input_feature) ==
  [edge_set_inputs |-> edge_set_inputs, next_state |-> next_state,
   node_input_feature |-> node_input_feature]

\* NodeSetUpdate.call: runs each convolution on its edge set, then the
\* next-state layer on (node feature, {edge set: result}, {}).
NodeSetUpdate_call(self, graph, node_set_name, training, mask) ==
  LET edge_inputs ==
        [a \in 1..Len(self.edge_set_inputs) |->
           <<self.edge_set_inputs[a][1],
             Conv_call(self.edge_set_inputs[a][2], graph,
                       self.edge_set_inputs[a][1], training, mask)>>]
      node_input == graph.node_sets[node_set_name][self.node_input_feature]
  IN [edge_inputs |-> edge_inputs,
      res |-> NextState_apply(self.next_state,
                              <<node_input, edge_inputs, <<>>>>,
                              training, mask)]

(***************************************************************************)
(* GraphSAGEGraphUpdate                                                    *)
(***************************************************************************)
\* A check that only catches use_pooling without hidden_units.
PoolingWithoutHiddenUnits(use_pooling, hidden_units) ==
  use_pooling /\ hidden_units = <<>>

\* A membership test that lets every node set through.
AnyNodeSetName(node_set_name, node_set_names) == TRUE

\* if use_pooling != (hidden_units is not None)
PoolingMisconfigured(use_pooling, hidden_units) ==
  use_pooling # (hidden_units # <<>>)

\* if node_set_name in node_set_names
InNodeSetNames(node_set_name, node_set_names) ==
  node_set_name \in node_set_names

\* The convolution GraphUpdateCallback makes for one edge set.
NewConv(args) ==
  IF args.use_pooling
  THEN PoolingConv_init(
         [receiver_tag |-> args.receiver_tag,
          sender_node_feature |-> <<args.feature_name>>,
          reduce_type |-> args.reduce_type, units |-> args.units,
          hidden_units |-> args.hidden_units[1], use_bias |-> args.use_bias,
          dropout_rate |-> args.dropout_rate, activation |-> "relu",
          kwargs |-> args.kwargs])
  ELSE AggregatorConv_init(
         [receiver_tag |-> args.receiver_tag,
          reduce_type |-> args.reduce_type,
          sender_node_feature |-> <<args.feature_name>>,
          units |-> args.units, dropout_rate |-> args.dropout_rate,
          kwargs |-> args.kwargs])

AssemblyRaised(error, at, created) ==
  [status |-> "error", error |-> error, at |-> at, created |-> created,
   node_sets |-> <<>>]

\* The first loop of GraphUpdateCallback from item k of
\* spec.edge_sets_spec.items() on: node_set_update_dict and the log of the
\* layers created so far.
RECURSIVE ConvLoop(_, _, _, _, _)
ConvLoop(args, items, k, node_set_update_dict, created) ==
  IF k > Len(items)
  THEN [status |-> "ok", dict |-> node_set_update_dict, created |-> created]
  ELSE
  LET edge_set_name == items[k][1]
      node_set_name == items[k][2][args.receiver_tag]
  IN IF ~InNodeSetNames(node_set_name, args.node_set_names)
  THEN ConvLoop(args, items, k + 1, node_set_update_dict, created)
  ELSE IF NewConv(args).status # "ok"
  THEN [status |-> "error", error |-> NewConv(args).error,
        dict |-> node_set_update_dict, created |-> created]
  ELSE
  LET inner == IF DictHas(node_set_update_dict, node_set_name)
               THEN DictGet(node_set_update_dict, node_set_name) ELSE <<>>
  IN ConvLoop(args, items, k + 1,
              DictSet(node_set_update_dict, node_set_name,
                      DictSet(inner, edge_set_name, NewConv(args).self[1])),
              Append(created, <<"conv", node_set_name, edge_set_name>>))

\* The second loop: one NodeSetUpdate with a new GraphSAGENextState for each
\* key of node_set_update_dict.
RECURSIVE NodeSetLoop(_, _, _, _, _)
NodeSetLoop(args, dict, k, node_set_updates, created) ==
  IF k > Len(dict)
  THEN [status |-> "ok", error |-> "", at |-> "", created |-> created,
        node_sets |-> node_set_updates]
  ELSE IF args.kwargs # <<>>
  THEN AssemblyRaised("TypeError", "next_state", created)
  ELSE
  NodeSetLoop(
    args, dict, k + 1,
    DictSet(node_set_updates, dict[k][1],
            NodeSetUpdate_init(
              dict[k][2],
              NextState_init(
                [units |-> args.units, use_bias |-> args.use_bias,
                 dropout_rate |-> args.dropout_rate,
                 feature_name |-> args.feature_name,
                 l2_normalize |-> args.l2_normalize,
                 combine_type |-> args.combine_type,
                 activation |-> args.activation]),
              args.feature_name)),
    Append(created, <<"next_state", dict[k][1]>>))

\* GraphUpdateCallback(spec), in the closure of GraphSAGEGraphUpdate(**args).
GraphUpdateCallback(args, spec) ==
  IF PoolingMisconfigured(args.use_pooling, args.hidden_units)
  THEN AssemblyRaised("ValueError", "use_pooling", <<>>)
  ELSE
  LET convs == ConvLoop(args, spec, 1, <<>>, <<>>)
  IN IF convs.status # "ok"
     THEN AssemblyRaised(convs.error, "conv", convs.created)
     ELSE NodeSetLoop(args, convs.dict, 1, <<>>, convs.created)

\* spec.edge_sets_spec: each edge set of the schema with the node sets at its
\* endpoints, in the order of the mapping.
EdgeSetSpecs == [SOURCE : NodeSetNames, TARGET : NodeSetNames]

Schemas ==
  {<<>>}
  \cup {<<<<e, a>>>> : e \in EdgeSetNames, a \in EdgeSetSpecs}
  \cup {<<<<q[1], q[3]>>, <<q[2], q[4]>>>> :
          q \in {r \in EdgeSetNames \X EdgeSetNames \X EdgeSetSpecs
                       \X EdgeSetSpecs : r[1] # r[2]}}

GraphUpdateArgs ==
  [node_set_names : SUBSET NodeSetNames, receiver_tag : Tags,
   reduce_type : {"mean"}, use_pooling : BOOLEAN, use_bias : {TRUE},
   dropout_rate : {<<0, 1>>}, units : {MaxUnits},
   hidden_units : {<<>>, <<MaxUnits>>}, l2_normalize : {TRUE},
   combine_type : {"sum"}, activation : {"relu"},
   feature_name : {"hidden_state"},
   kwargs : {<<>>, <<<<"receiver_feature", <<>>>>>>,
             <<<<"sender_edge_feature", <<"hidden_state">>>>>>}]

(***************************************************************************)
(* ResidualNextState (graph/keras/layers/next_state.py).                   *)
(***************************************************************************)
\* tf.nest.flatten takes the values of a mapping in the order of its sorted
\* keys: "context_state" < "embedding" < "hidden_state".
KeyRank(name) ==
  IF name = "context_state" THEN 1 ELSE IF name = "embedding" THEN 2 ELSE 3

RECURSIVE InsertByKey(_, _)
InsertByKey(item, items) ==
  IF items = <<>> THEN <<item>>
  ELSE IF KeyRank(item[1]) <= KeyRank(items[1][1]) THEN <<item>> \o items
  ELSE <<items[1]>> \o InsertByKey(item, Tail(items))

RECURSIVE SortedByKey(_)
SortedByKey(items) ==
  IF items = <<>> THEN <<>>
  ELSE InsertByKey(items[1], SortedByKey(Tail(items)))

DictValues(items) == [a \in 1..Len(items) |-> items[a][2]]

\* tf.nest.flatten(inputs) for inputs = (self_input, edge_inputs,
\* context_inputs): a tensor is one leaf, a mapping gives its values by key.
FlattenSelf(self_input) ==
  IF self_input.kind = "tensor" THEN <<self_input.value[1][2]>>
  ELSE DictValues(SortedByKey(self_input.value))

Flatten(inputs) ==
  FlattenSelf(inputs[1]) \o DictValues(SortedItems(inputs[2]))
    \o DictValues(SortedByKey(inputs[3]))

\* The residual block of the model is a Dense layer without bias.
ResidualBlockLayer == 4

\* ResidualNextState.__init__: the block, the activation and the name are
\* stored; nothing is checked.  `block_in` is the input width the block was
\* built for: none before its first use.
ResidualConfigs ==
  [units : 1..MaxUnits, activation : Activations,
   skip_connection_feature_name : FeatureNames]

ResidualNextState_init(config) ==
  [constructed |-> TRUE, status |-> "ok",
   units |-> config.units, activation |-> config.activation,
   skip_connection_feature_name |-> config.skip_connection_feature_name,
   block_in |-> <<>>]

\* A variant in which the skip feature is the first entry of the feature bag.
FirstFeature(self, self_input) ==
  IF self_input.kind = "tensor" THEN <<self_input.value[1][2]>>
  ELSE IF self_input.value = <<>> THEN <<>>
  ELSE <<self_input.value[1][2]>>

\* The skip-connection feature: the self input itself if it is a tensor,
\* else its entry at skip_connection_feature_name; <<>> stands for KeyError.
SkipFeature(self, self_input) ==
  IF self_input.kind = "tensor" THEN <<self_input.value[1][2]>>
  ELSE IF DictHas(self_input.value, self.skip_connection_feature_name)
  THEN <<DictGet(self_input.value, self.skip_connection_feature_name)>>
  ELSE <<>>

\* A variant in which only the leading dimensions are compared.
RowsIncompatible(skip, net) == Rows(skip) # Rows(net)

\* not skip_connection_feature.shape.is_compatible_with(net.shape), for
\* tensors whose static shapes are fully defined.
ShapeIncompatible(skip, net) == ShapeOf(skip) # ShapeOf(net)

\* tf.add(x, y) with broadcasting of the last axis.
AddOk(x, y) == Width(x) = Width(y) \/ Width(x) = 1 \/ Width(y) = 1

Add(x, y) ==
  [i \in 1..Rows(x) |->
     [j \in 1..(IF Width(x) >= Width(y) THEN Width(x) ELSE Width(y)) |->
        QAdd(x[i][IF Width(x) = 1 THEN 1 ELSE j],
             y[i][IF Width(y) = 1 THEN 1 ELSE j])]]

ResidualRaised(self, error, at, steps, skip, block_out) ==
  [status |-> "raised", error |-> error, at |-> at, steps |-> steps,
   skip |-> skip, block_out |-> block_out, out |-> <<>>, self |-> self]

\* ResidualNextState.call(inputs).  The Dense block builds its kernel for the
\* width of its first input and rejects any other width afterwards.
ResidualNextState_call(self, inputs) ==
  LET skip == SkipFeature(self, inputs[1])
      net1 == Concat(Flatten(inputs))
      self1 == [self EXCEPT !.block_in = <<Width(net1)>>]
      net2 == Dense(Kernel(ResidualBlockLayer, FALSE, Width(net1), self.units),
                    net1)
  IN IF skip = <<>>
     THEN ResidualRaised(self, "KeyError", "skip", <<>>, <<>>, <<>>)
     ELSE IF self.block_in # <<>> /\ self.block_in # <<Width(net1)>>
     THEN ResidualRaised(self, "ValueError", "residual_block",
                         <<"flatten", "concat">>, skip, <<>>)
     ELSE IF ShapeIncompatible(skip[1], net2)
     THEN ResidualRaised(self1, "ValueError", "shape",
                         <<"flatten", "concat", "residual_block">>,
                         skip, <<net2>>)
     ELSE IF ~AddOk(net2, skip[1])
     THEN ResidualRaised(self1, "InvalidArgumentError", "add",
                         <<"flatten", "concat", "residual_block">>,
                         skip, <<net2>>)
     ELSE [status |-> "ok", error |-> "", at |-> "",
           steps |-> <<"flatten", "concat", "residual_block", "add",
                       "activation">>,
           skip |-> skip, block_out |-> <<net2>>,
           out |-> <<Activation(self.activation, Add(net2, skip[1]))>>,
           self |-> self1]

\* The self inputs of the calls: one tensor (held under the name ""), or a
\* feature bag holding any subset of the feature names in any insertion order.
FeatureTensor(name, n, w) ==
  IF name = "hidden_state" THEN NodeTensor(n, w) ELSE EdgeTensor("writes", n, w)

SelfInputs(n) ==
  {[kind |-> "tensor", value |-> <<<<"", NodeTensor(n, w)>>>>] :
     w \in 1..MaxWidth}
  \cup {[kind |-> "dict", value |-> <<>>]}
  \cup {[kind |-> "dict", value |-> <<<<f, FeatureTensor(f, n, w)>>>>] :
          f \in FeatureNames, w \in 1..MaxWidth}
  \cup {[kind |-> "dict",
         value |-> <<<<p[1], FeatureTensor(p[1], n, p[3])>>,
                     <<p[2], FeatureTensor(p[2], n, p[4])>>>>] :
          p \in {q \in FeatureNames \X FeatureNames
                         \X (1..MaxWidth) \X (1..MaxWidth) : q[1] # q[2]}}

\* The context inputs: an empty feature bag, or one context feature that was
\* broadcast to the nodes.
ContextDicts(n) ==
  {<<>>, <<<<"context_state", EdgeTensor("cites", n, 1)>>>>}

ResidualInputs ==
  {<<s, e, c>> : s \in SelfInputs(MaxRows), e \in EdgeInputDicts(MaxRows),
                 c \in ContextDicts(MaxRows)}

(***************************************************************************)
(* get_config and from_config.  A config is a mapping from option names to *)
(* values; an activation is a value with its Python type, so that the name *)
(* "relu" and the function relu are told apart.                            *)
(***************************************************************************)
Str(name) == [type |-> "str", name |-> name]
Function(name) == [type |-> "function", name |-> name]
None == [type |-> "NoneType", name |-> ""]

\* The activations a constructor may be given.
GivenActivations == {Str("relu"), Str("linear"), None, Function("relu")}

\* tf.keras.activations.get(identifier): the function of that name, linear
\* for None, and a callable as it is.  The instances hold the function by
\* its name.
activations_get(identifier) ==
  IF identifier.type = "NoneType" THEN "linear" ELSE identifier.name

\* The constructor arguments with the activation resolved as __init__ does.
Resolved(args) ==
  [args EXCEPT !.activation = activations_get(args.activation)]

\* config.pop(key, None)
DictPop(dict, key) ==
  SelectSeq(dict, LAMBDA item : item[1] # key)

\* The items of config whose keys are not named parameters: **kwargs.
RestOf(config, named) ==
  SelectSeq(config, LAMBDA item : item[1] \notin named)

\* AnyToAnyConvolutionBase.get_config: the tag, the three feature names and
\* the Layer's name.
ConvolutionBase_get_config(self) ==
  <<<<"receiver_tag", self.receiver_tag>>,
    <<"receiver_feature", self.receiver_feature>>,
    <<"sender_node_feature", self.sender_node_feature>>,
    <<"sender_edge_feature", self.sender_edge_feature>>,
    <<"name", <<self.name>>>>>>

\* GraphSAGEAggregatorConv.get_config; both popped values are None by
\* __init__, so the assertions hold.
AggregatorConv_get_config(self) ==
  DictPop(DictPop(ConvolutionBase_get_config(self), "receiver_feature"),
          "sender_edge_feature")
    \o <<<<"units", self.units>>, <<"dropout_rate", self.dropout_rate>>,
         <<"reduce_type", self.reduce_type>>>>

\* GraphSAGEPoolingConv.get_config
PoolingConv_get_config(self) ==
  DictPop(DictPop(ConvolutionBase_get_config(self), "receiver_feature"),
          "sender_edge_feature")
    \o <<<<"activation", Function(self.activation)>>,
         <<"units", self.units>>, <<"hidden_units", self.hidden_units>>,
         <<"dropout_rate", self.dropout_rate>>,
         <<"use_bias", self.use_bias>>,
         <<"reduce_type", self.reduce_type>>>>

\* GCNGraphSAGENodeSetUpdate.get_config; the Layer's config is its name.
GCN_get_config(self) ==
  <<<<"name", <<"graph_sage_gcn_update">>>>,
    <<"edge_set_names", self.edge_set_names>>,
    <<"receiver_tag", self.receiver_tag>>,
    <<"reduce_type", self.reduce_type>>,
    <<"self_node_feature", self.self_node_feature>>,
    <<"sender_node_feature", self.sender_node_feature>>,
    <<"units", self.units>>, <<"dropout_rate", self.dropout_rate>>,
    <<"activation", Function(self.activation)>>,
    <<"use_bias", self.use_bias>>,
    <<"share_weights", self.share_weights>>,
    <<"add_self_loop", self.add_self_loop>>>>

\* GraphSAGENextState.get_config
NextState_get_config(self) ==
  <<<<"units", self.units>>, <<"use_bias", self.use_bias>>,
    <<"dropout_rate", self.dropout_rate>>,
    <<"feature_name", self.feature_name>>,
    <<"l2_normalize", self.l2_normalize>>,
    <<"combine_type", self.combine_type>>,
    <<"activation", Function(self.activation)>>,
    <<"name", <<"graph_sage_next_state">>>>>>

\* The named parameters of the four constructors.
NamedOptions(class) ==
  IF class = "GraphSAGEAggregatorConv"
  THEN {"receiver_tag", "reduce_type", "sender_node_feature", "units",
        "dropout_rate"}
  ELSE IF class = "GraphSAGEPoolingConv"
  THEN {"receiver_tag", "sender_node_feature", "units", "hidden_units",
        "reduce_type", "use_bias", "dropout_rate", "activation"}
  ELSE IF class = "GCNGraphSAGENodeSetUpdate"
  THEN {"edge_set_names", "receiver_tag", "reduce_type", "self_node_feature",
        "sender_node_feature", "units", "dropout_rate", "activation",
        "use_bias", "share_weights", "add_self_loop"}
  ELSE {"units", "use_bias", "dropout_rate", "feature_name", "l2_normalize",
        "combine_type", "activation"}

\* cls(**config): each named parameter gets the config's value under its
\* name, the other items go to **kwargs.
ArgsOf(class, config) ==
  [k \in NamedOptions(class) \cup {"kwargs"} |->
     IF k = "kwargs" THEN RestOf(config, NamedOptions(class))
     ELSE DictGet(config, k)]

\* The outcome of get_config(), and of get_config() on the instance made
\* from it.
ConfigRaised(res) ==
  [status |-> "error", error |-> res.error, config |-> <<>>, again |-> <<>>]

ConfigTrip(config, again) ==
  [status |-> "ok", error |-> "", config |-> config, again |-> again]

AggregatorConv_round_trip(args) ==
  LET first == AggregatorConv_init(args)
      config == AggregatorConv_get_config(first.self[1])
      second == AggregatorConv_init(ArgsOf("GraphSAGEAggregatorConv", config))
  IN IF first.status # "ok" THEN ConfigRaised(first)
     ELSE IF second.status # "ok" THEN ConfigRaised(second)
     ELSE ConfigTrip(config, AggregatorConv_get_config(second.self[1]))

PoolingConv_round_trip(args) ==
  LET first == PoolingConv_init(Resolved(args))
      config == PoolingConv_get_config(first.self[1])
      second ==
        PoolingConv_init(Resolved(ArgsOf("GraphSAGEPoolingConv", config)))
  IN IF first.status # "ok" THEN ConfigRaised(first)
     ELSE IF second.status # "ok" THEN ConfigRaised(second)
     ELSE ConfigTrip(config, PoolingConv_get_config(second.self[1]))

GCN_round_trip(args) ==
  LET config == GCN_get_config(GCN_init(Resolved(args)))
      second ==
        GCN_init(Resolved(ArgsOf("GCNGraphSAGENodeSetUpdate", config)))
  IN ConfigTrip(config, GCN_get_config(second))

NextState_round_trip(args) ==
  LET config == NextState_get_config(NextState_init(Resolved(args)))
      second == NextState_init(Resolved(ArgsOf("GraphSAGENextState", config)))
  IN ConfigTrip(config, NextState_get_config(second))

\* The constructor arguments of the round trips.
ConfigAggregatorArgs ==
  [receiver_tag : Tags, reduce_type : ConvReduceTypes,
   sender_node_feature : OptionalFeatures, units : 1..MaxUnits,
   dropout_rate : DropoutRates,
   kwargs : {<<>>, <<<<"name", <<"conv">>>>>>}]

ConfigPoolingArgs ==
  [receiver_tag : Tags, reduce_type : {"max_no_inf", "mean"},
   sender_node_feature : {<<"hidden_state">>}, units : {1},
   hidden_units : 1..MaxUnits, use_bias : BOOLEAN,
   activation : GivenActivations, dropout_rate : DropoutRates,
   kwargs : {<<>>, <<<<"name", <<"conv">>>>>>}]

ConfigGCNArgs ==
  [edge_set_names : EdgeSetNameLists, receiver_tag : Tags,
   reduce_type : {"sum", "mean"}, self_node_feature : FeatureNames,
   sender_node_feature : {"hidden_state"}, units : 1..MaxUnits,
   dropout_rate : {<<0, 1>>}, activation : GivenActivations,
   use_bias : BOOLEAN, share_weights : BOOLEAN, add_self_loop : {TRUE}]

ConfigNextStateArgs ==
  [units : 1..MaxUnits, use_bias : BOOLEAN, dropout_rate : DropoutRates,
   feature_name : FeatureNames, l2_normalize : BOOLEAN,
   combine_type : {"sum", "concat"}, activation : GivenActivations]


\* The transforms a call that passes the validation looks up: the entry of
\* self._transform_edge_fn_dict for each edge set of the loop unless weights
\* are shared, and self._node_transform_fn in the loop if weights are shared
\* and for the self loop.
UsedEdgeTransforms(self) ==
  IF ~self.share_weights
  THEN {self.edge_set_names[a] : a \in 1..Len(self.edge_set_names)}
  ELSE {}

UsesNodeTransform(self) ==
  \/ self.share_weights /\ self.edge_set_names # <<>>
  \/ self.add_self_loop

\* ---- end of the layers ----

(***************************************************************************)
(* The state machines.  Each specification runs one class; the instances   *)
(* of the other classes stay as first constructed and are not used.        *)
(***************************************************************************)
\* What the record of a call keeps of its result.
Outcome(r) ==
  [status |-> r.status, error |-> r.error, at |-> r.at, steps |-> r.steps,
   self_t |-> r.self_t, combined |-> r.combined, out |-> r.out]

NoCall ==
  [pre |-> <<>>, inputs |-> <<>>, training |-> FALSE,
   mask |-> "keep_all", res |-> <<>>]

IdleNextState ==
  NextState_init([units |-> 1, use_bias |-> TRUE, dropout_rate |-> <<0, 1>>,
                  feature_name |-> "hidden_state", l2_normalize |-> TRUE,
                  combine_type |-> "sum", activation |-> "relu"])

IdleGCN ==
  GCN_init([edge_set_names |-> <<>>, receiver_tag |-> "TARGET",
            reduce_type |-> "mean", self_node_feature |-> "hidden_state",
            sender_node_feature |-> "hidden_state", units |-> 1,
            dropout_rate |-> <<0, 1>>, activation |-> "relu",
            use_bias |-> FALSE, share_weights |-> FALSE,
            add_self_loop |-> TRUE])

NoGCNCall ==
  [graph |-> <<>>, node_set_name |-> "", training |-> FALSE,
   mode |-> FALSE, mask |-> "keep_all", res |-> <<>>]

NoConv == [class |-> "", args |-> <<>>, res |-> <<>>]

NoUpdate == [node_set_name |-> "", update |-> <<>>]

NoUpdCall ==
  [graph |-> <<>>, training |-> FALSE, mask |-> "keep_all",
   edge_inputs |-> <<>>, res |-> <<>>]

NoAssembly == [args |-> <<>>, spec |-> <<>>, res |-> <<>>]

NSIdle == ns = IdleNextState /\ nsCall = NoCall
GCNIdle == gcn = IdleGCN /\ gcnCall = NoGCNCall
ConvIdle == conv = NoConv
UpdIdle == upd = NoUpdate /\ updCall = NoUpdCall
AsmIdle == asm = NoAssembly

NoConvCall ==
  [edge_set_name |-> "", graph |-> <<>>, training |-> FALSE,
   mask |-> "keep_all", res |-> <<>>]
NoResidual == [constructed |-> FALSE]
NoResidualCall == [inputs |-> <<>>, pre |-> <<>>, res |-> <<>>, again |-> FALSE]
NoConfig == [class |-> "", args |-> <<>>, res |-> <<>>]

\* The variables of the convolution call, ResidualNextState and get_config
\* machines, unused.
RestIdle ==
  /\ convCall = NoConvCall
  /\ rns = NoResidual
  /\ rnsCall = NoResidualCall
  /\ cfg = NoConfig

\* ---- GraphSAGENextState ----
NSInit ==
  /\ RestIdle
  /\ ns \in {NextState_init(c) : c \in NextStateConfigs}
  /\ nsCall = NoCall
  /\ GCNIdle /\ ConvIdle /\ UpdIdle /\ AsmIdle

NSCall ==
  /\ UNCHANGED <<gcn, gcnCall, conv, upd, updCall, asm,
               convCall, rns, rnsCall, cfg>>
  /\ \E dict \in EdgeInputDicts(MaxRows) \cup IllShapedEdgeInputs(MaxRows),
        ctx \in ContextInputs :
     LET inputs == <<NodeTensor(MaxRows, MaxWidth), dict, ctx>>
     IN \E r \in {NextState_apply(ns, inputs, FALSE, "keep_all")} :
        /\ ns' = r.self
        /\ nsCall' = [pre |-> <<ns>>, inputs |-> inputs, training |-> FALSE,
                      mask |-> "keep_all", res |-> <<Outcome(r)>>]

NSTrain ==
  /\ ns.built
  /\ ~ns.trained
  /\ ns' = NextState_train(ns)
  /\ UNCHANGED <<nsCall, gcn, gcnCall, conv, upd, updCall, asm,
               convCall, rns, rnsCall, cfg>>

NSNext == NSCall \/ NSTrain

\* ---- GCNGraphSAGENodeSetUpdate ----
GCNInit ==
  /\ RestIdle
  /\ gcn \in {GCN_init(c) : c \in GCNConfigs}
  /\ gcnCall = NoGCNCall
  /\ NSIdle /\ ConvIdle /\ UpdIdle /\ AsmIdle

\* One call of the layer; the call leaves the instance as it is, so one call
\* shows what any call does.
GCNCall ==
  /\ gcnCall.res = <<>>
  /\ \E graph \in Graphs, node_set_name \in NodeSetNames,
        training \in BOOLEAN, mask \in Masks :
       \E mode \in KerasModes(training) :
         /\ mask = "keep_all" \/ DropoutActive(gcn.dropout_rate, mode)
         /\ gcnCall' = [graph |-> <<graph>>, node_set_name |-> node_set_name,
                        training |-> training, mode |-> mode, mask |-> mask,
                        res |-> <<GCN_call(gcn, graph, node_set_name,
                                           training, mode, mask)>>]
         /\ UNCHANGED <<gcn, ns, nsCall, conv, upd, updCall, asm,
                        convCall, rns, rnsCall, cfg>>

GCNTrain ==
  /\ gcnCall.res = <<>>
  /\ ~gcn.trained
  /\ gcn' = GCN_train(gcn)
  /\ UNCHANGED <<gcnCall, ns, nsCall, conv, upd, updCall, asm,
               convCall, rns, rnsCall, cfg>>

GCNNext == GCNCall \/ GCNTrain

\* ---- The constructors of the two convolutions ----
ConvInit ==
  /\ RestIdle
  /\ conv = NoConv
  /\ NSIdle /\ GCNIdle /\ UpdIdle /\ AsmIdle

NewAggregatorConv ==
  /\ \E args \in AggregatorConvArgs :
       conv' = [class |-> "GraphSAGEAggregatorConv", args |-> <<args>>,
                res |-> <<AggregatorConv_init(args)>>]
  /\ UNCHANGED <<ns, nsCall, gcn, gcnCall, upd, updCall, asm,
               convCall, rns, rnsCall, cfg>>

NewPoolingConv ==
  /\ \E args \in PoolingConvArgs :
       conv' = [class |-> "GraphSAGEPoolingConv", args |-> <<args>>,
                res |-> <<PoolingConv_init(args)>>]
  /\ UNCHANGED <<ns, nsCall, gcn, gcnCall, upd, updCall, asm,
               convCall, rns, rnsCall, cfg>>

ConvNext == NewAggregatorConv \/ NewPoolingConv

\* ---- GraphSAGEGraphUpdate: the schema resolution ----
AsmInit ==
  /\ RestIdle
  /\ asm = NoAssembly
  /\ NSIdle /\ GCNIdle /\ ConvIdle /\ UpdIdle

ResolveSchema ==
  /\ asm.res = <<>>
  /\ \E args \in GraphUpdateArgs, spec \in Schemas :
       asm' = [args |-> <<args>>, spec |-> spec,
               res |-> <<GraphUpdateCallback(args, spec)>>]
  /\ UNCHANGED <<ns, nsCall, gcn, gcnCall, conv, upd, updCall,
               convCall, rns, rnsCall, cfg>>

AsmNext == ResolveSchema

\* ---- One node set's update of a resolved GraphSAGEGraphUpdate ----
\* GraphSAGEGraphUpdate with element-wise aggregators, for all node sets.
UpdateArgs ==
  [node_set_names : {NodeSetNames}, receiver_tag : Tags,
   reduce_type : ConvReduceTypes, use_pooling : {FALSE}, use_bias : BOOLEAN,
   dropout_rate : DropoutRates, units : {1, MaxUnits}, hidden_units : {<<>>},
   l2_normalize : BOOLEAN, combine_type : {"sum", "concat"},
   activation : Activations, feature_name : {"hidden_state"},
   kwargs : {<<>>}]

\* The graph's schema, or one of its edge sets alone.
UpdateSchemas ==
  {GraphSchema} \cup {<<GraphSchema[a]>> : a \in 1..Len(GraphSchema)}

ResolvedUpdates ==
  UNION { LET res == GraphUpdateCallback(args, spec)
          IN {[node_set_name |-> res.node_sets[k][1],
               update |-> res.node_sets[k][2]] :
                k \in 1..Len(res.node_sets)} :
          args \in UpdateArgs, spec \in UpdateSchemas }

UpdInit ==
  /\ RestIdle
  /\ upd \in ResolvedUpdates
  /\ updCall = NoUpdCall
  /\ NSIdle /\ GCNIdle /\ ConvIdle /\ AsmIdle

UpdCall ==
  /\ updCall.res = <<>>
  /\ \E graph \in Graphs, training \in BOOLEAN, mask \in Masks :
       /\ mask = "keep_all"
            \/ DropoutActive(upd.update.next_state.dropout_rate, training)
       /\ \E r \in {NodeSetUpdate_call(upd.update, graph, upd.node_set_name,
                                       training, mask)} :
          /\ upd' = [upd EXCEPT !.update.next_state = r.res.self]
          /\ updCall' = [graph |-> <<graph>>, training |-> training,
                         mask |-> mask, edge_inputs |-> r.edge_inputs,
                         res |-> <<Outcome(r.res)>>]
  /\ UNCHANGED <<ns, nsCall, gcn, gcnCall, conv, asm,
               convCall, rns, rnsCall, cfg>>

\* Training changes the values of the kernels.
UpdTrain ==
  /\ updCall.res = <<>>
  /\ ~upd.update.next_state.trained
  /\ upd' = [upd EXCEPT
               !.update.next_state = NextState_train(@),
               !.update.edge_set_inputs =
                 [a \in 1..Len(@) |->
                    <<@[a][1], [@[a][2] EXCEPT !.trained = TRUE]>>]]
  /\ UNCHANGED <<updCall, ns, nsCall, gcn, gcnCall, conv, asm,
               convCall, rns, rnsCall, cfg>>

UpdNext == UpdCall \/ UpdTrain

\* ---- The classes configured by a reduce_type or combine_type name ----
\* Either a GCNGraphSAGENodeSetUpdate or a GraphSAGENextState is constructed,
\* with any name, and then used; the other stays idle.
NamedGCNConfigs ==
  {c \in GCNConfigs :
     c.dropout_rate = <<0, 1>> /\ c.activation = "linear" /\ ~c.share_weights}

NamedNextStateConfigs ==
  {c \in NextStateConfigs :
     c.units = MaxUnits /\ ~c.l2_normalize /\ c.activation = "linear"}

NamesInit ==
  /\ RestIdle
  /\ ConvIdle /\ UpdIdle /\ AsmIdle
  /\ \/ /\ gcn \in {GCN_init(c) : c \in NamedGCNConfigs}
        /\ gcnCall = NoGCNCall
        /\ NSIdle
     \/ /\ ns \in {NextState_init(c) : c \in NamedNextStateConfigs}
        /\ nsCall = NoCall
        /\ GCNIdle

NamesNext ==
  \/ NSIdle /\ GCNCall
  \/ NSIdle /\ GCNTrain
  \/ GCNIdle /\ NSCall
  \/ GCNIdle /\ NSTrain

\* ---- ResidualNextState ----
\* The edge inputs of the calls all have width 1 here: what matters to the
\* layer is the width of the skip feature against the width of the block.
ResidualCallInputs ==
  {i \in ResidualInputs : \A a \in 1..Len(i[2]) : Width(i[2][a][2]) = 1}

ResidualInit ==
  /\ rns = NoResidual
  /\ rnsCall = NoResidualCall
  /\ convCall = NoConvCall
  /\ cfg = NoConfig
  /\ NSIdle /\ GCNIdle /\ ConvIdle /\ UpdIdle /\ AsmIdle

\* ResidualNextState(residual_block, activation=...,
\*                   skip_connection_feature_name=...)
NewResidualNextState ==
  /\ \E config \in ResidualConfigs : rns' = ResidualNextState_init(config)
  /\ rnsCall' = NoResidualCall
  /\ UNCHANGED <<ns, nsCall, gcn, gcnCall, conv, upd, updCall, asm,
                 convCall, cfg>>

\* The first call of the layer, and one later call.
ResidualCall ==
  /\ rns.constructed
  /\ rnsCall.res = <<>> \/ ~rnsCall.again
  /\ \E inputs \in ResidualCallInputs :
       \E r \in {ResidualNextState_call(rns, inputs)} :
         /\ rnsCall' = [inputs |-> <<inputs>>, pre |-> <<rns>>, res |-> <<r>>,
                        again |-> rnsCall.res # <<>>]
         /\ rns' = r.self
  /\ UNCHANGED <<ns, nsCall, gcn, gcnCall, conv, upd, updCall, asm,
                 convCall, cfg>>

ResidualNext == NewResidualNextState \/ ResidualCall

\* ---- get_config and from_config ----
\* get_config and from_config change no instance, so one round trip per
\* behaviour shows what any round trip does.
ConfigInit ==
  /\ cfg = NoConfig
  /\ convCall = NoConvCall
  /\ rns = NoResidual
  /\ rnsCall = NoResidualCall
  /\ NSIdle /\ GCNIdle /\ ConvIdle /\ UpdIdle /\ AsmIdle

ConfigAggregatorConv ==
  /\ cfg.res = <<>>
  /\ \E args \in ConfigAggregatorArgs :
       cfg' = [class |-> "GraphSAGEAggregatorConv", args |-> <<args>>,
               res |-> <<AggregatorConv_round_trip(args)>>]
  /\ UNCHANGED <<ns, nsCall, gcn, gcnCall, conv, upd, updCall, asm,
                 convCall, rns, rnsCall>>

ConfigPoolingConv ==
  /\ cfg.res = <<>>
  /\ \E args \in ConfigPoolingArgs :
       cfg' = [class |-> "GraphSAGEPoolingConv", args |-> <<args>>,
               res |-> <<PoolingConv_round_trip(args)>>]
  /\ UNCHANGED <<ns, nsCall, gcn, gcnCall, conv, upd, updCall, asm,
                 convCall, rns, rnsCall>>

ConfigGCN ==
  /\ cfg.res = <<>>
  /\ \E args \in ConfigGCNArgs :
       cfg' = [class |-> "GCNGraphSAGENodeSetUpdate", args |-> <<args>>,
               res |-> <<GCN_round_trip(args)>>]
  /\ UNCHANGED <<ns, nsCall, gcn, gcnCall, conv, upd, updCall, asm,
                 convCall, rns, rnsCall>>

ConfigNextState ==
  /\ cfg.res = <<>>
  /\ \E args \in ConfigNextStateArgs :
       cfg' = [class |-> "GraphSAGENextState", args |-> <<args>>,
               res |-> <<NextState_round_trip(args)>>]
  /\ UNCHANGED <<ns, nsCall, gcn, gcnCall, conv, upd, updCall, asm,
                 convCall, rns, rnsCall>>

ConfigNext ==
  ConfigAggregatorConv \/ ConfigPoolingConv \/ ConfigGCN \/ ConfigNextState

\* ---- GraphSAGEPoolingConv called on an edge set ----
PoolInit ==
  /\ conv \in {[class |-> "GraphSAGEPoolingConv", args |-> <<args>>,
                res |-> <<PoolingConv_init(args)>>] : args \in PoolingCallArgs}
  /\ convCall = NoConvCall
  /\ rns = NoResidual
  /\ rnsCall = NoResidualCall
  /\ cfg = NoConfig
  /\ NSIdle /\ GCNIdle /\ UpdIdle /\ AsmIdle

\* One call of the layer on an edge set of a graph; the call leaves the
\* instance as it is.
PoolingConvCall ==
  /\ convCall.res = <<>>
  /\ \E graph \in Graphs, edge_set_name \in EdgeSetNames,
        training \in BOOLEAN, mask \in Masks :
       /\ mask = "keep_all"
            \/ DropoutActive(conv.res[1].self[1].dropout_rate, training)
       /\ convCall' = [edge_set_name |-> edge_set_name, graph |-> <<graph>>,
                       training |-> training, mask |-> mask,
                       res |-> <<Conv_call(conv.res[1].self[1], graph,
                                           edge_set_name, training, mask)>>]
  /\ UNCHANGED <<ns, nsCall, gcn, gcnCall, conv, upd, updCall, asm,
                 rns, rnsCall, cfg>>

\* Training changes the values of the kernels and of the hidden bias.
PoolingConvTrain ==
  /\ convCall.res = <<>>
  /\ ~conv.res[1].self[1].trained
  /\ conv' = [conv EXCEPT !.res[1].self[1].trained = TRUE]
  /\ UNCHANGED <<ns, nsCall, gcn, gcnCall, upd, updCall, asm,
                 convCall, rns, rnsCall, cfg>>

PoolNext == PoolingConvCall \/ PoolingConvTrain

\* ---- the specifications ----
SpecNS == NSInit /\ [][NSNext]_vars

SpecGCN == GCNInit /\ [][GCNNext]_vars

SpecConv == ConvInit /\ [][ConvNext]_vars

SpecAsm == AsmInit /\ [][AsmNext]_vars

SpecUpdate == UpdInit /\ [][UpdNext]_vars

SpecNames == NamesInit /\ [][NamesNext]_vars

SpecResidual == ResidualInit /\ [][ResidualNext]_vars

SpecConfig == ConfigInit /\ [][ConfigNext]_vars

SpecPool == PoolInit /\ [][PoolNext]_vars

\* ---- end of the state machines ----

(***************************************************************************)
(* GraphSAGENextState: properties of the latest call.                      *)
(***************************************************************************)
NSCalled == nsCall.res # <<>>
NSReturned == NSCalled /\ nsCall.res[1].status = "ok"
NSConfig == nsCall.pre[1]
NSEdgeInputs == nsCall.inputs[2]
NSOutput == nsCall.res[1].out[1].value

\* The widths of the edge-set inputs of the latest call, added up.
NSEdgeWidthTotal ==
  LET RECURSIVE Total(_)
      Total(k) == IF k = 0 THEN 0
                  ELSE Width(NSEdgeInputs[k][2]) + Total(k - 1)
  IN Total(Len(NSEdgeInputs))

\* C1: every call that returns has an output of feature width units in sum
\* mode and units + (sum of the edge-set input widths) in concat mode,
\* whatever use_bias, activation and l2_normalize are.
C1_OutputWidth ==
  NSReturned =>
    Width(NSOutput) =
      IF NSConfig.combine_type = "sum" THEN NSConfig.units
      ELSE NSConfig.units + NSEdgeWidthTotal

\* The values of a mapping in ascending order of their keys, computed from
\* the mapping as a set of items: the k-th value belongs to the key that has
\* exactly k keys of the mapping at or below it.
ValuesByAscendingName(dict) ==
  LET items == {dict[a] : a \in 1..Len(dict)}
      Below(it) == {o \in items : NameRank[o[1]] <= NameRank[it[1]]}
  IN [k \in 1..Cardinality(items) |->
        (CHOOSE it \in items : Cardinality(Below(it)) = k)[2]]

SameItems(d1, d2) ==
  {d1[a] : a \in 1..Len(d1)} = {d2[a] : a \in 1..Len(d2)}

\* C2: the list combined by a call is the self-transformed state followed by
\* the edge-set values in ascending edge-set-name order, and calling with the
\* same (name, value) pairs inserted in any other order gives the same result.
C2_OrderInvariant ==
  NSCalled /\ nsCall.res[1].self_t # <<>> =>
    /\ nsCall.res[1].combined =
         nsCall.res[1].self_t \o ValuesByAscendingName(NSEdgeInputs)
    /\ \A other \in EdgeInputDicts(MaxRows) :
         SameItems(other, NSEdgeInputs) =>
           LET r == NextState_apply(
                      NSConfig, <<nsCall.inputs[1], other, nsCall.inputs[3]>>,
                      nsCall.training, nsCall.mask)
           IN r.status = nsCall.res[1].status /\ r.out = nsCall.res[1].out

\* A concat call that returns, given two edge sets of different values
\* inserted in descending name order.
C2_Witness ==
  /\ NSReturned
  /\ Len(NSEdgeInputs) = 2
  /\ NSEdgeInputs[1][1] = "writes"
  /\ NSConfig.combine_type = "concat"
  /\ NSEdgeInputs[1][2] # NSEdgeInputs[2][2]

\* C3: a call with a non-empty context position raises ValueError before any
\* dropout, self-transform or combination; a call with an empty one never
\* raises the context error.
C3_ContextRejected ==
  NSCalled =>
    /\ nsCall.inputs[3] # <<>> =>
         /\ nsCall.res[1].status = "error"
         /\ nsCall.res[1].error = "ValueError"
         /\ nsCall.res[1].steps = <<>>
         /\ nsCall.res[1].self_t = <<>>
         /\ nsCall.res[1].combined = <<>>
    /\ nsCall.inputs[3] = <<>> => nsCall.res[1].at # "context"

\* A built instance whose call was given a context input and raised for it.
C3_Witness ==
  /\ NSCalled
  /\ NSConfig.built
  /\ nsCall.inputs[3] # <<>>
  /\ nsCall.res[1].at = "context"

(***************************************************************************)
(* GCNGraphSAGENodeSetUpdate: properties of the call.                      *)
(***************************************************************************)
GCNCalled == gcnCall.res # <<>>
GCNGraph == gcnCall.graph[1]
GCNResult == gcnCall.res[1]
GCNReturned == GCNCalled /\ GCNResult.status = "ok"

\* A call whose reduce_type is supported and whose edge sets all have the
\* called node set at their receiver endpoint.
GCNValidCall ==
  /\ GCNCalled
  /\ gcn.reduce_type \in {"sum", "mean"}
  /\ ~WrongReceiver(gcn, GCNGraph, gcnCall.node_set_name)

\* The number of edges of an edge set that arrive at node i.
InDegree(edge_set_name, i) ==
  LET edges == GCNGraph.edge_sets[edge_set_name].edges
  IN Cardinality({e \in 1..Len(edges) : edges[e][gcn.receiver_tag] = i})

\* The in-degree of node i over the configured edge sets, plus 1 with a self
\* loop.
TotalInDegree(i) ==
  LET names == gcn.edge_set_names
      RECURSIVE Total(_)
      Total(a) == IF a = 0 THEN 0 ELSE InDegree(names[a], i) + Total(a - 1)
  IN Total(Len(names)) + (IF gcn.add_self_loop THEN 1 ELSE 0)

\* The elementwise sum of the contributions to node i (zeros if none).
ContributionSum(i) ==
  LET list == GCNResult.pooled_node_states_list
  IN [j \in 1..gcn.units |-> QSum([a \in 1..Len(list) |-> list[a][i][j]])]

GCNNodes == 1..GCNGraph.node_sets[gcnCall.node_set_name].total_size

\* C4: with reduce_type="mean" a call returns, and each receiver node's
\* pre-bias result is the elementwise sum of its contributions divided by its
\* total in-degree (over the configured edge sets, plus 1 with a self loop),
\* and exactly 0 for a node of total in-degree 0.
C4_MeanByTotalInDegree ==
  GCNValidCall /\ gcn.reduce_type = "mean" =>
    /\ GCNReturned
    /\ \A i \in GCNNodes :
         GCNResult.pre_bias[1][i] =
           IF TotalInDegree(i) = 0 THEN [j \in 1..gcn.units |-> QZero]
           ELSE [j \in 1..gcn.units |->
                   QDivInt(ContributionSum(i)[j], TotalInDegree(i))]



\* C5: with add_self_loop=False and reduce_type="sum", a call returns and a
\* receiver node without incoming edges in the configured edge sets gets
\* activation(bias) with use_bias, and the zero vector without it.
C5_IsolatedNodeOutput ==
  GCNValidCall /\ gcn.reduce_type = "sum" /\ ~gcn.add_self_loop =>
    /\ GCNReturned
    /\ \A i \in GCNNodes :
         TotalInDegree(i) = 0 =>
           GCNResult.out[1].value[i] =
             IF gcn.use_bias
             THEN Activation(gcn.activation, <<gcn.bias_term[1]>>)[1]
             ELSE [j \in 1..gcn.units |-> QZero]

\* The configured edge sets whose node set at receiver_tag is not the node
\* set the call was made for.
MismatchedEdgeSets ==
  {a \in 1..Len(gcn.edge_set_names) :
     GCNGraph.edge_sets[gcn.edge_set_names[a]][gcn.receiver_tag]
       # gcnCall.node_set_name}

\* C11: a call fails with ValueError whenever some configured edge set's node
\* set at receiver_tag differs from the node_set_name of the call, and it
\* returns a result only if every configured edge set names that node set.
C11_ReceiverValidated ==
  GCNCalled =>
    /\ MismatchedEdgeSets # {} =>
         GCNResult.status = "error" /\ GCNResult.error = "ValueError"
    /\ GCNReturned => MismatchedEdgeSets = {}

\* A supported reduce_type, a first edge set that names the node set and a
\* second that does not: the call raises at the validation.
C11_Witness ==
  /\ GCNCalled
  /\ gcn.reduce_type \in {"sum", "mean"}
  /\ MismatchedEdgeSets = {2}
  /\ GCNResult.at = "receiver"
  /\ GCNResult.out = <<>>

(***************************************************************************)
(* A node set update of GraphSAGEGraphUpdate: properties of the call.      *)
(***************************************************************************)
UpdCalled == updCall.res # <<>>
UpdReturned == UpdCalled /\ updCall.res[1].status = "ok"
UpdGraph == updCall.graph[1]
UpdConvs == upd.update.edge_set_inputs
UpdNextState == upd.update.next_state
UpdOutput == updCall.res[1].out[1].value
UpdOldState == UpdGraph.node_sets[upd.node_set_name].hidden_state
UpdNoDropout == ~DropoutActive(UpdNextState.dropout_rate, updCall.training)

\* self_transform(old_state)
UpdSelfTransform ==
  Dense(Kernel(0, UpdNextState.trained, Width(UpdOldState), UpdNextState.units),
        UpdOldState)

\* The indices of the edges of edge set a's aggregator that arrive at node i.
IncomingEdges(a, i) ==
  LET edges == UpdGraph.edge_sets[UpdConvs[a][1]].edges
  IN SelectSeq([e \in 1..Len(edges) |-> e],
               LAMBDA e : edges[e][UpdConvs[a][2].receiver_tag] = i)

\* transform(sender_state), for every node of the sender node set of edge
\* set a.
SenderTransform(a) ==
  LET c == UpdConvs[a][2]
      sender == UpdGraph.edge_sets[UpdConvs[a][1]][reverse_tag(c.receiver_tag)]
      state == UpdGraph.node_sets[sender].hidden_state
  IN Dense(Kernel(TransformNeighborLayer, c.trained, Width(state), c.units),
           state)

\* The mean over the senders of node i of transform(sender_state), or 0.
MeanOfSenderTransforms(a, i) ==
  LET c == UpdConvs[a][2]
      edges == UpdGraph.edge_sets[UpdConvs[a][1]].edges
      incoming == IncomingEdges(a, i)
      Sender(k) == edges[incoming[k]][reverse_tag(c.receiver_tag)]
  IN [j \in 1..c.units |->
        IF incoming = <<>> THEN QZero
        ELSE QDivInt(QSum([k \in 1..Len(incoming) |->
                             SenderTransform(a)[Sender(k)][j]]),
                     Len(incoming))]

UpdPlain ==
  /\ Len(UpdConvs) = 1
  /\ ~UpdNextState.use_bias
  /\ UpdNextState.activation = "linear"
  /\ ~UpdNextState.l2_normalize

\* C6: one mean aggregator without dropout feeding a next-state layer with
\* combine_type="sum", no bias, identity activation and no normalization
\* gives every node self_transform(old_state) plus the mean over its senders
\* of transform(sender_state), and plus 0 for a node without incoming edges.
C6_SelfPlusMeanOfSenders ==
  /\ UpdCalled
  /\ UpdPlain
  /\ UpdNoDropout
  /\ UpdConvs[1][2].reduce_type = "mean"
  /\ UpdNextState.combine_type = "sum"
  => /\ UpdReturned
     /\ \A i \in 1..Rows(UpdOldState) :
          UpdOutput[i] =
            [j \in 1..UpdNextState.units |->
               QAdd(UpdSelfTransform[i][j], MeanOfSenderTransforms(1, i)[j])]

\* Such a call on a graph with a node that has two incoming edges whose
\* senders' transforms differ from their mean, and a node without incoming
\* edges.
C6_Witness ==
  /\ UpdReturned
  /\ UpdPlain
  /\ UpdNoDropout
  /\ UpdConvs[1][2].reduce_type = "mean"
  /\ UpdNextState.combine_type = "sum"
  /\ \E i, k \in 1..Rows(UpdOldState) :
       /\ Len(IncomingEdges(1, i)) = 2
       /\ IncomingEdges(1, k) = <<>>
       /\ UpdOutput[k] = UpdSelfTransform[k]
       /\ UpdOutput[i] # UpdSelfTransform[i]

\* C7: with combine_type="concat", one aggregator, no bias, identity
\* activation and no normalization the output has width units + units, and
\* its first `units` columns are the self-transform of the old node state.
C7_SelfTransformFirst ==
  /\ UpdCalled
  /\ UpdPlain
  /\ UpdNextState.combine_type = "concat"
  => /\ UpdReturned
     /\ Width(UpdOutput) = UpdNextState.units + UpdNextState.units
     /\ \A i \in 1..Rows(UpdOldState) :
          /\ SubSeq(UpdOutput[i], 1, UpdNextState.units)
               = updCall.res[1].self_t[1][i]
          /\ UpdNoDropout =>
               SubSeq(UpdOutput[i], 1, UpdNextState.units) = UpdSelfTransform[i]

\* Such a call whose aggregator's result differs from the self-transform.
C7_Witness ==
  /\ UpdReturned
  /\ UpdPlain
  /\ UpdNoDropout
  /\ UpdNextState.combine_type = "concat"
  /\ updCall.edge_inputs[1][2] # UpdSelfTransform

(***************************************************************************)
(* GraphSAGEGraphUpdate: properties of the schema resolution.              *)
(***************************************************************************)
AsmResolved == asm.res # <<>>
AsmArgs == asm.args[1]
AsmResult == asm.res[1]
AsmBuilt == AsmResolved /\ AsmResult.status = "ok"

\* C8: the schema resolution raises its configuration error exactly for
\* use_pooling=True with hidden_units=None and for use_pooling=False with
\* hidden_units set, and raises it before any aggregator or combiner is made.
C8_PoolingNeedsHiddenUnits ==
  AsmResolved =>
    /\ AsmResult.at = "use_pooling" <=>
         \/ AsmArgs.use_pooling /\ AsmArgs.hidden_units = <<>>
         \/ ~AsmArgs.use_pooling /\ AsmArgs.hidden_units # <<>>
    /\ AsmResult.at = "use_pooling" =>
         /\ AsmResult.status = "error"
         /\ AsmResult.error = "ValueError"
         /\ AsmResult.created = <<>>
         /\ AsmResult.node_sets = <<>>

\* The edge sets of the resolved schema whose receiver endpoint is node set n
\* when n is one of node_set_names.
FeedingEdgeSets(n) ==
  {asm.spec[a][1] : a \in {b \in 1..Len(asm.spec) :
     /\ asm.spec[b][2][AsmArgs.receiver_tag] = n
     /\ n \in AsmArgs.node_set_names}}

\* A resolution stopped by the configuration error although the schema has
\* an edge set that would get an aggregator.
C8_Witness ==
  /\ AsmResolved
  /\ AsmResult.at = "use_pooling"
  /\ ~AsmArgs.use_pooling
  /\ AsmArgs.kwargs = <<>>
  /\ \E n \in NodeSetNames : FeedingEdgeSets(n) # {}

\* The places (a, b) of the assembly that hold an aggregator keyed by edge
\* set e under node set n.
AggregatorPlaces(n, e) ==
  {p \in (1..Len(AsmResult.node_sets)) \X (1..Len(asm.spec)) :
     /\ AsmResult.node_sets[p[1]][1] = n
     /\ p[2] <= Len(AsmResult.node_sets[p[1]][2].edge_set_inputs)
     /\ AsmResult.node_sets[p[1]][2].edge_set_inputs[p[2]][1] = e}

\* C9: a built assembly has an aggregator keyed by edge set E under node set
\* N exactly if N is at E's receiver endpoint and in node_set_names; there
\* is one aggregator per such edge set, of the variant use_pooling selects
\* and with the receiver tag of the update, and one combiner per node set
\* that has an aggregator.
C9_AggregatorsFollowSchema ==
  AsmBuilt =>
    \A n \in NodeSetNames :
      /\ \A e \in EdgeSetNames :
           /\ Cardinality(AggregatorPlaces(n, e))
                = IF e \in FeedingEdgeSets(n) THEN 1 ELSE 0
           /\ \A p \in AggregatorPlaces(n, e) :
                LET c == AsmResult.node_sets[p[1]][2].edge_set_inputs[p[2]][2]
                IN /\ c.class = IF AsmArgs.use_pooling
                                 THEN "GraphSAGEPoolingConv"
                                 ELSE "GraphSAGEAggregatorConv"
                   /\ DictGet(asm.spec, e)[c.receiver_tag] = n
      /\ Cardinality({a \in 1..Len(AsmResult.node_sets) :
                        AsmResult.node_sets[a][1] = n})
           = IF FeedingEdgeSets(n) # {} THEN 1 ELSE 0

\* A built assembly for a schema of two edge sets, one that gets an
\* aggregator and one whose receiver is not in node_set_names.
C9_Witness ==
  /\ AsmBuilt
  /\ Len(asm.spec) = 2
  /\ Len(AsmResult.node_sets) = 1
  /\ Len(AsmResult.node_sets[1][2].edge_set_inputs) = 1
  /\ AsmResult.created # <<>>

(***************************************************************************)
(* The convolutions' constructors.                                         *)
(***************************************************************************)
ConvConstructed == conv.res # <<>>
ConvArgs == conv.args[1]
ConvResult == conv.res[1]

\* The keyword was given with a value other than None.
GivenNonNone(key) ==
  \E a \in 1..Len(ConvArgs.kwargs) :
     ConvArgs.kwargs[a][1] = key /\ ConvArgs.kwargs[a][2] # <<>>

\* C10: constructing either convolution fails if receiver_feature or
\* sender_edge_feature is given non-None or sender_node_feature is None;
\* otherwise it succeeds with receiver_feature=None and
\* sender_edge_feature=None.
C10_ConstructorArguments ==
  ConvConstructed =>
    IF \/ GivenNonNone("receiver_feature")
       \/ GivenNonNone("sender_edge_feature")
       \/ ConvArgs.sender_node_feature = <<>>
    THEN ConvResult.status = "error"
    ELSE /\ ConvResult.status = "ok"
         /\ ConvResult.self[1].receiver_feature = <<>>
         /\ ConvResult.self[1].sender_edge_feature = <<>>

(***************************************************************************)
(* Unsupported reduce_type and combine_type names.                         *)
(***************************************************************************)
UnsupportedReduceType == gcn.reduce_type \notin {"sum", "mean"}
UnsupportedCombineType == ns.combine_type \notin {"sum", "concat"}

\* C12, as stated: no constructed instance carries an unsupported reduce_type
\* or combine_type into a call.
C12_NamesRejectedBeforeCalls ==
  /\ GCNCalled => ~UnsupportedReduceType
  /\ NSCalled => ~UnsupportedCombineType

\* C12, amended: both classes are constructed with any name, and the
\* unsupported name is rejected by each call: a GCNGraphSAGENodeSetUpdate
\* call raises ValueError before it looks at any edge set, and a
\* GraphSAGENextState call raises ValueError, returns nothing and creates no
\* bias.
C12_NamesRejectedByCalls ==
  /\ GCNCalled /\ UnsupportedReduceType =>
       /\ GCNResult.status = "error"
       /\ GCNResult.error = "ValueError"
       /\ GCNResult.at = "reduce_type"
       /\ GCNResult.pooled_node_states_list = <<>>
  /\ NSCalled /\ UnsupportedCombineType =>
       /\ nsCall.res[1].status = "error"
       /\ nsCall.res[1].error = "ValueError"
       /\ nsCall.res[1].out = <<>>
       /\ ns.bias_term = <<>>

\* A GCNGraphSAGENodeSetUpdate constructed with reduce_type="max" and called
\* for the node set all its edge sets arrive at.
C12_Witness ==
  /\ GCNCalled
  /\ gcn.reduce_type = "max"
  /\ gcn.edge_set_names # <<>>
  /\ MismatchedEdgeSets = {}
  /\ GCNResult.at = "reduce_type"

(***************************************************************************)
(* ResidualNextState.                                                      *)
(***************************************************************************)
ResCalled == rnsCall.res # <<>>
ResResult == rnsCall.res[1]
ResInputs == rnsCall.inputs[1]
ResSelfInput == rnsCall.inputs[1][1]
ResConfig == rnsCall.pre[1]
ResBlockApplied == ResCalled /\ ResResult.block_out # <<>>
ResSkipName == ResConfig.skip_connection_feature_name
ResBagHasSkip ==
  \E a \in 1..Len(ResSelfInput.value) : ResSelfInput.value[a][1] = ResSkipName

\* C13: a ResidualNextState is constructed whatever the width of its block;
\* a call in which the block's output and the skip feature differ in shape
\* raises ValueError, and a call in which they agree returns
\* activation(residual_block(concat(flattened inputs)) + skip feature).
C13_ShapeCheckedAtCall ==
  /\ rns.constructed => rns.status = "ok"
  /\ ResBlockApplied =>
       LET skip == ResResult.skip[1]
           net == Dense(Kernel(ResidualBlockLayer, FALSE,
                               Width(Concat(Flatten(ResInputs))),
                               ResConfig.units),
                        Concat(Flatten(ResInputs)))
       IN /\ ResConfig.units # Width(skip) =>
               /\ ResResult.status = "raised"
               /\ ResResult.error = "ValueError"
               /\ ResResult.out = <<>>
          /\ ResConfig.units = Width(skip) =>
               /\ ResResult.status = "ok"
               /\ ResResult.out =
                    <<Activation(ResConfig.activation,
                                 [i \in 1..Rows(net) |->
                                    [j \in 1..Width(net) |->
                                       QAdd(net[i][j], skip[i][j])]])>>

\* A constructed layer whose call failed the shape check.
C13_Witness ==
  /\ rns.constructed
  /\ ResBlockApplied
  /\ ResConfig.units # Width(ResResult.skip[1])
  /\ ResResult.error = "ValueError"

\* C14: the skip feature is the self input itself when that is one tensor,
\* and the bag's entry at skip_connection_feature_name otherwise; a bag
\* without that entry makes the call raise KeyError with the residual block
\* neither built nor applied.
C14_SkipFeatureSelection ==
  ResCalled =>
    /\ ResSelfInput.kind = "tensor" =>
         ResResult.skip = <<ResSelfInput.value[1][2]>>
    /\ ResSelfInput.kind = "dict" /\ ResBagHasSkip =>
         \E a \in 1..Len(ResSelfInput.value) :
           /\ ResSelfInput.value[a][1] = ResSkipName
           /\ ResResult.skip = <<ResSelfInput.value[a][2]>>
    /\ ResSelfInput.kind = "dict" /\ ~ResBagHasSkip =>
         /\ ResResult.status = "raised"
         /\ ResResult.error = "KeyError"
         /\ ResResult.steps = <<>>
         /\ ResResult.block_out = <<>>
         /\ rns = ResConfig

\* A call with a non-empty feature bag that lacks the configured name.
C14_Witness ==
  /\ ResCalled
  /\ ResSelfInput.kind = "dict"
  /\ ResSelfInput.value # <<>>
  /\ ~ResBagHasSkip
  /\ ResResult.error = "KeyError"

(***************************************************************************)
(* get_config.                                                             *)
(***************************************************************************)
ConfigDone == cfg.res # <<>> /\ cfg.res[1].status = "ok"
ConfigArgs == cfg.args[1]
Config == cfg.res[1].config

ConfigHasGivenValues ==
  \A k \in NamedOptions(cfg.class) :
    DictHas(Config, k) /\ DictGet(Config, k) = ConfigArgs[k]

ConfigRoundTrips == cfg.res[1].again = Config

ConfigOmitsFixedFeatures ==
  cfg.class \in {"GraphSAGEAggregatorConv", "GraphSAGEPoolingConv"} =>
    ~DictHas(Config, "receiver_feature")
    /\ ~DictHas(Config, "sender_edge_feature")

\* C15: get_config holds every named constructor option with the value given
\* at construction, get_config of the instance made from it is the same
\* config, and the config of a convolution has neither receiver_feature nor
\* sender_edge_feature.
C15_ConfigRoundTrip ==
  ConfigDone =>
    ConfigHasGivenValues /\ ConfigRoundTrips /\ ConfigOmitsFixedFeatures

(***************************************************************************)
(* Dropout and the training flag.                                          *)
(***************************************************************************)
\* What the latest calls return when no Dropout layer drops anything.
GCNOutputWithoutDropout ==
  GCN_call(gcn, GCNGraph, gcnCall.node_set_name, FALSE, FALSE, "keep_all").out

UpdOutputWithoutDropout ==
  NodeSetUpdate_call(upd.update, UpdGraph, upd.node_set_name, FALSE,
                     "keep_all").res.out

\* C16: a call with training=False returns what the call returns without any
\* dropout, for the convolutions with their next-state layer and for the GCN
\* variant alike.
C16_DropoutGatedByFlag ==
  /\ UpdReturned /\ ~updCall.training =>
       updCall.res[1].out = UpdOutputWithoutDropout
  /\ GCNReturned /\ ~gcnCall.training =>
       GCNResult.out = GCNOutputWithoutDropout

(***************************************************************************)
(* The bias of GraphSAGENextState.                                         *)
(***************************************************************************)
\* The bias width that build() computes for the shapes of the latest call.
NSBiasWidthForCall ==
  IF NSConfig.combine_type = "sum" THEN NSConfig.units
  ELSE NSConfig.units + NSEdgeWidthTotal

NSBiasKept ==
  NSConfig.built =>
    /\ Len(ns.bias_term[1]) = Len(NSConfig.bias_term[1])
    /\ NSBiasWidthForCall # Len(NSConfig.bias_term[1]) => ~NSReturned

NSBiasCreated ==
  ~NSConfig.built /\ ns.built => Len(ns.bias_term[1]) = NSBiasWidthForCall

\* C17: without use_bias there is never a bias; with it there is none before
\* the first call, the call that builds the layer creates it with width units
\* (sum) or units + the edge-set input widths (concat), and every later call
\* leaves its shape alone and fails if its own shapes ask for another width.
C17_BiasCreatedOnce ==
  /\ ~ns.use_bias => ns.bias_term = <<>>
  /\ ~NSCalled => ns.bias_term = <<>>
  /\ ns.bias_term # <<>> => ns.built
  /\ NSCalled /\ ns.use_bias => NSBiasCreated /\ NSBiasKept

(***************************************************************************)
(* The shapes build() rejects.                                             *)
(***************************************************************************)
\* The latest call is the first use of a concat-mode layer and has an edge
\* input of rank other than 2 or of unknown feature-axis size.
NSIllShapedFirstUse ==
  /\ NSCalled
  /\ ~NSConfig.built
  /\ NSConfig.combine_type = "concat"
  /\ nsCall.inputs[3] = <<>>
  /\ \E a \in 1..Len(NSEdgeInputs) :
        /\ Len(NSEdgeInputs[a]) = 3
        /\ Len(NSEdgeInputs[a][3]) # 2 \/ NSEdgeInputs[a][3][2] = 0

PoolCalled == convCall.res # <<>>
PoolSelf == conv.res[1].self[1]
PoolGraph == convCall.graph[1]
PoolOutput == convCall.res[1]
PoolEdges == PoolGraph.edge_sets[convCall.edge_set_name].edges
PoolReceivers ==
  PoolGraph.node_sets[
    PoolGraph.edge_sets[convCall.edge_set_name][PoolSelf.receiver_tag]].total_size

\* The sender state of every edge, after dropout and the hidden transform.
PoolHidden ==
  LET sender_tag == reverse_tag(PoolSelf.receiver_tag)
      sender == PoolGraph.edge_sets[convCall.edge_set_name][sender_tag]
      x == PoolGraph.node_sets[sender].hidden_state
      on_edges == [e \in 1..Len(PoolEdges) |-> x[PoolEdges[e][sender_tag]]]
  IN pooling_transform_fn(
       PoolSelf, Width(x),
       Dropout(on_edges, PoolSelf.dropout_rate, convCall.training,
               convCall.mask))

\* The edges that arrive at receiver node i.
PoolIncoming(i) ==
  {e \in 1..Len(PoolEdges) : PoolEdges[e][PoolSelf.receiver_tag] = i}

\* Column j of the rows of `hidden` that belong to the edges at node i,
\* reduced.
PoolReduced(hidden, i, j) ==
  LET values == {hidden[e][j] : e \in PoolIncoming(i)}
      RECURSIVE Total(_)
      Total(es) ==
        IF es = {} THEN QZero
        ELSE LET e == CHOOSE e \in es : TRUE
             IN QAdd(hidden[e][j], Total(es \ {e}))
  IN IF PoolIncoming(i) = {} THEN QZero
     ELSE IF PoolSelf.reduce_type = "max_no_inf"
     THEN CHOOSE v \in values : \A u \in values : QMax(v, u) = v
     ELSE QDivInt(Total(PoolIncoming(i)), Cardinality(PoolIncoming(i)))

\* C19: the output row of a receiver node is the final no-bias transform of
\* the reduction, over the node's incoming edges, of the hidden transform of
\* the dropped-out sender states; it is units wide.
C19_HiddenThenReduceThenTransform ==
  PoolCalled =>
    /\ Rows(PoolOutput) = PoolReceivers
    /\ \E hidden \in {PoolHidden} :
         \A i \in 1..PoolReceivers :
           /\ Len(PoolOutput[i]) = PoolSelf.units
           /\ PoolOutput[i] =
                Dense(Kernel(TransformNeighborLayer, PoolSelf.trained,
                             PoolSelf.hidden_units, PoolSelf.units),
                      <<[j \in 1..PoolSelf.hidden_units |->
                           PoolReduced(hidden, i, j)]>>)[1]

\* A call of a trained max_no_inf convolution with bias and relu on an edge
\* set that has a node with two incoming edges.
C19_Witness ==
  /\ PoolCalled
  /\ PoolSelf.reduce_type = "max_no_inf"
  /\ PoolSelf.use_bias /\ PoolSelf.trained /\ PoolSelf.activation = "relu"
  /\ \E i \in 1..PoolReceivers : Cardinality(PoolIncoming(i)) = 2

(***************************************************************************)
(* The steps of GraphSAGENextState.call after the combination.             *)
(***************************************************************************)
NSResult == nsCall.res[1]

\* The steps the call logs after "combine".
NSStepsAfterCombine ==
  SubSeq(NSResult.steps, 4, Len(NSResult.steps))

\* The bias the latest call added: the one the layer had, or the zeros that
\* the call's build() created.
NSBiasUsed ==
  IF NSConfig.built THEN NSConfig.bias_term[1]
  ELSE [j \in 1..Len(ns.bias_term[1]) |-> QZero]

\* Rows are held as sign(y) * y^2 after normalization, so a row of unit L2
\* norm has entries whose absolute values add up to 1.
UnitOrZeroRow(row) ==
  LET total == QSum([j \in 1..Len(row) |-> <<Abs(row[j][1]), row[j][2]>>])
  IN total = Q(1) \/ total = QZero

\* C20: after the combination the call adds the bias if use_bias, applies the
\* activation, normalizes the rows if l2_normalize, in that order, and returns
\* one entry under feature_name; with l2_normalize the returned rows have unit
\* norm (or are zero), so nothing was applied after the normalization.
C20_BiasActivationNormalize ==
  NSReturned =>
    LET combined == combine_values(NSResult.combined, NSConfig.combine_type)
        biased == IF NSConfig.use_bias
                  THEN BiasAdd(combined, NSBiasUsed) ELSE combined
        activated == Activation(NSConfig.activation, biased)
    IN /\ NSStepsAfterCombine =
            (IF NSConfig.use_bias THEN <<"bias">> ELSE <<>>)
              \o <<"activation">>
              \o (IF NSConfig.l2_normalize THEN <<"l2_normalize">> ELSE <<>>)
       /\ Len(NSResult.out) = 1
       /\ NSResult.out[1].name = NSConfig.feature_name
       /\ NSOutput = IF NSConfig.l2_normalize THEN L2Normalize(activated)
                     ELSE activated
       /\ NSConfig.l2_normalize =>
            \A i \in 1..Rows(NSOutput) : UnitOrZeroRow(NSOutput[i])

\* A returning call of a trained layer with bias, relu and normalization
\* whose output has a row that is not zero.
C20_Witness ==
  /\ NSReturned
  /\ NSConfig.use_bias /\ NSConfig.trained /\ NSConfig.l2_normalize
  /\ NSConfig.activation = "relu"
  /\ \E i \in 1..Rows(NSOutput) : \E j \in 1..Width(NSOutput) :
        NSOutput[i][j] # QZero


\* The number of nodes of the node set the call was made for.
GCNTotalSize == GCNGraph.node_sets[gcnCall.node_set_name].total_size

\* A valid call with reduce_type="mean" that has a contribution to sum.
GCNMeanCall ==
  /\ GCNValidCall
  /\ gcn.reduce_type = "mean"
  /\ gcn.edge_set_names # <<>> \/ gcn.add_self_loop

\* C21: in a valid call with reduce_type="mean", for every size of the
\* receiver node set (1 included), each in-degree counter (one per edge set,
\* and the ones vector of the self loop) is a vector with one entry per node,
\* the entry of node i being its in-degree in that edge set; the counters are
\* added and the call returns one output row per node.
C21_CounterEntryPerNode ==
  GCNMeanCall =>
    /\ \A a \in 1..Len(GCNResult.edge_set_in_degrees_list) :
         GCNResult.edge_set_in_degrees_list[a].shape = <<GCNTotalSize>>
    /\ \A a \in 1..Len(gcn.edge_set_names) : \A i \in GCNNodes :
         GCNResult.edge_set_in_degrees_list[a].vals[i] =
           Q(InDegree(gcn.edge_set_names[a], i))
    /\ GCNReturned
    /\ Rows(GCNResult.out[1].value) = GCNTotalSize


\* Every transform the call looks up was created by __init__.
GCNTransformsCreated ==
  /\ UsedEdgeTransforms(gcn) # {} =>
       /\ gcn.transform_edge_fn_dict # <<>>
       /\ UsedEdgeTransforms(gcn) \subseteq gcn.transform_edge_fn_dict[1]
  /\ UsesNodeTransform(gcn) => gcn.node_transform_fn

\* C22: for every configuration (every share_weights, add_self_loop and
\* edge_set_names, the empty list without a self loop included), a call
\* that passes the validation looks up only transforms made by __init__, has
\* at least one contribution to sum, and returns one row of width units per
\* node of the called node set.
C22_EveryConfigurationReturns ==
  GCNValidCall =>
    /\ GCNTransformsCreated
    /\ GCNResult.pooled_node_states_list # <<>>
    /\ GCNReturned
    /\ Rows(GCNResult.out[1].value) = GCNTotalSize
    /\ \A i \in GCNNodes : Len(GCNResult.out[1].value[i]) = gcn.units

=============================================================================
